---- MODULE Spec2Model ----
(***************************************************************************)
(* Synchronization engine of the diagram canvas (Canvas component):        *)
(* connect / node-change / edge-change handlers, the render effects that   *)
(* follow a domain change (edge regeneration, node projection, debounced   *)
(* diagram save) and the asynchronous writes of vertexApi.saveDiagram.     *)
(*                                                                         *)
(* One action is one handler together with the React commit it causes:     *)
(* the state updates it queued are applied and the effects whose           *)
(* dependencies changed are run (operator Commit).                         *)
(***************************************************************************)
EXTENDS Integers, Sequences, FiniteSets, TLC

VARIABLES
    tables,         \* useChartDB().tables: sequence of table records
    areas,          \* useChartDB().areas
    notes,          \* useChartDB().notes
    relationships,  \* useChartDB().relationships
    dependencies,   \* useChartDB().dependencies
    customTypes,    \* useChartDB().customTypes
    readonly,       \* useChartDB().readonly
    diagramId,      \* useChartDB().diagramId / currentDiagram ("null" when none is loaded)
    idCounter,      \* number of ids handed out by generateId()
    nodes,          \* React Flow node list (useNodesState), what getNode reads
    edges,          \* React Flow edge list (useEdgesState), what getEdge reads
    saveTrigger,    \* useState counter forcing a save
    saveTimer,      \* pending callback of saveDiagramTimeoutRef, or NoTimer
    inflight,       \* saveDiagram requests sent and not yet answered
    store,          \* the write whose diagram the backing store holds (0: the loaded one)
    saveCleanup,    \* whether the last run of the save effect returned its cleanup
    saveTimeouts,   \* how many timeouts of the save effect the browser holds
    lastIssued,     \* the last vertexApi.saveDiagram call: its number
    calls,          \* calls made by the last handler, in order
    overlapGraph,   \* useCanvas().overlapGraph: table id -> set of overlapping table ids
    overlapTimers,  \* pending callbacks of the debounced overlap update
    dragStart,      \* the drag gesture in progress and where its nodes started
    view,           \* filter, filterLoading, showDBViews and the tables useDiff reports as new
    selectedTableIds,         \* useState: ids of the selected nodes
    selectedRelationshipIds,  \* useState: ids of the selected edges
    parentTimers,   \* pending callbacks of the debounced parent-area check, oldest first
    signals,        \* what the projection and highlight effects of the last commit handed to setNodes / setEdges
    mounted,        \* whether the Canvas component is mounted
    tempFloatingEdge, \* useCanvas().tempFloatingEdge: the source node of the floating edge, null when none
    rafId,          \* rafIdRef.current: the id requestAnimationFrame returned, NoFrame when undefined
    frames,         \* the frame callbacks the browser holds: id and pointer position
    cursorPosition, \* useState: the cursor position of the floating edge, or NoPosition
    serverDiagram,  \* the content of the diagram as the API stores it
    storageOps,     \* the storage operations called: where each is, and its copy of the diagram
    migrated,       \* localStorage: the flag migrated_to_api_v1 is 'true'
    indexedDB,      \* the legacy database: how many diagrams it holds, whether it holds a config
    migration,      \* the run of migrateIndexedDBToAPI: where it is, its errors, its result
    wrapper         \* MigrationWrapper: migrationComplete, migrationError, where runMigration is

domainVars == <<tables, areas, notes, relationships, dependencies, customTypes>>
appVars == <<serverDiagram, storageOps, migrated, indexedDB, migration, wrapper>>
vars == <<tables, areas, notes, relationships, dependencies, customTypes,
          readonly, diagramId, idCounter, nodes, edges, saveTrigger, saveTimer,
          saveCleanup, inflight, store, lastIssued, calls,
         overlapGraph, overlapTimers, dragStart, parentTimers,
         view, selectedTableIds, selectedRelationshipIds, signals,
         saveTimeouts, mounted, tempFloatingEdge, rafId, frames, cursorPosition, appVars>>

-----------------------------------------------------------------------------
(* Bounds of the model *)

MaxIds == 2
MaxSaveTrigger == 2
MaxWrites == 2
MaxCustomTypes == 1

(* null / undefined of an id-valued attribute *)
Null == "null"

(* a field lookup that found nothing *)
NullField == [id |-> "", type |-> ""]

-----------------------------------------------------------------------------
(* Sequence helpers (Array.prototype.map / some / find) *)

SeqMap(f(_), s) == [i \in DOMAIN s |-> f(s[i])]

Some(s, P(_)) == \E i \in DOMAIN s : P(s[i])

Range(s) == {s[i] : i \in DOMAIN s}

Ids(s) == {s[i].id : i \in DOMAIN s}

Last(s) == s[Len(s)]

-----------------------------------------------------------------------------
(* Handle ids.  A handle id is a '_'-separated string, kept here as the     *)
(* sequence of its segments: `left_rel_f1` is <<"left", "rel", "f1">>.      *)
(* An absent handle (undefined) is the empty sequence.                      *)

LEFT_HANDLE_ID_PREFIX == <<"left", "rel">>
TARGET_ID_PREFIX == <<"target", "rel">>
TOP_SOURCE_HANDLE_ID_PREFIX == <<"top", "dep">>
BOTTOM_SOURCE_HANDLE_ID_PREFIX == <<"bottom", "dep">>
TARGET_DEP_PREFIX == <<"target", "dep">>

(* handle?.startsWith?.(prefix): the prefix ends with '_', so a further    *)
(* segment has to follow it *)
startsWith(handle, prefix) ==
    /\ Len(handle) > Len(prefix)
    /\ SubSeq(handle, 1, Len(prefix)) = prefix

(* handle?.split('_')?.pop() ?? '' *)
splitPop(handle) == IF handle = <<>> THEN "" ELSE Last(handle)

-----------------------------------------------------------------------------
(* Domain entities *)

Field(id, type) == [id |-> id, type |-> type]

(* DBTable: width 0 stands for an absent width *)
Table(id, x, y, parentAreaId, fields) ==
    [id |-> id, x |-> x, y |-> y, width |-> 0,
     parentAreaId |-> parentAreaId, fields |-> fields, isView |-> FALSE]

(* a table that is a database view *)
ViewTable(id, x, y, parentAreaId, fields) ==
    [Table(id, x, y, parentAreaId, fields) EXCEPT !.isView = TRUE]

Area(id, x, y) == [id |-> id, x |-> x, y |-> y, width |-> 2, height |-> 2]

Note(id, x, y) == [id |-> id, x |-> x, y |-> y, width |-> 1, height |-> 1]

(* generateId(): the n-th id handed out *)
generateId(n) == "e" \o ToString(n)

(* useChartDB().getField *)
getField(tableId, fieldId) ==
    LET ts == SelectSeq(tables, LAMBDA t : t.id = tableId)
    IN  IF ts = <<>> THEN NullField
        ELSE LET fs == SelectSeq(ts[1].fields, LAMBDA f : f.id = fieldId)
             IN  IF fs = <<>> THEN NullField ELSE fs[1]

(* areFieldTypesCompatible(sourceType, targetType, databaseType) *)
areFieldTypesCompatible(sourceType, targetType) == sourceType = targetType

-----------------------------------------------------------------------------
(* What a handler leaves behind: the state updates it queued, the calls it  *)
(* made and the state slices that received a new value (new identity).     *)

H0 ==
    [tables |-> tables, areas |-> areas, notes |-> notes,
     relationships |-> relationships, dependencies |-> dependencies,
     customTypes |-> customTypes, idCounter |-> idCounter,
     saveTrigger |-> saveTrigger, nodes |-> nodes, edges |-> edges,
     view |-> view, calls |-> <<>>, touched |-> {}]

(* the handler `fn` was invoked with `arg`: first entry of its call log *)
Invoked(fn, arg) == [H0 EXCEPT !.calls = <<[fn |-> fn, arg |-> arg]>>]

(* useChartDB().createRelationship *)
createRelationship(h, a) ==
    [h EXCEPT
        !.relationships = Append(@,
            [id |-> generateId(h.idCounter + 1),
             sourceTableId |-> a.sourceTableId,
             sourceFieldId |-> a.sourceFieldId,
             targetTableId |-> a.targetTableId,
             targetFieldId |-> a.targetFieldId,
             sourceCardinality |-> "many",
             targetCardinality |-> "one"]),
        !.idCounter = @ + 1,
        !.calls = Append(@, [fn |-> "createRelationship", arg |-> a]),
        !.touched = @ \cup {"relationships"}]

(* useChartDB().createDependency *)
createDependency(h, a) ==
    [h EXCEPT
        !.dependencies = Append(@,
            [id |-> generateId(h.idCounter + 1),
             tableId |-> a.tableId,
             dependentTableId |-> a.dependentTableId]),
        !.idCounter = @ + 1,
        !.calls = Append(@, [fn |-> "createDependency", arg |-> a]),
        !.touched = @ \cup {"dependencies"}]

(* useToast().toast *)
toast(h, title) == [h EXCEPT !.calls = Append(@, [fn |-> "toast", arg |-> title])]

(* the type-compatibility predicate was consulted *)
consulted(h, s, t) ==
    [h EXCEPT !.calls = Append(@, [fn |-> "areFieldTypesCompatible", arg |-> <<s, t>>])]

-----------------------------------------------------------------------------
(* onConnectHandler *)

isDependencyHandle(handle) ==
    \/ startsWith(handle, TOP_SOURCE_HANDLE_ID_PREFIX)
    \/ startsWith(handle, BOTTOM_SOURCE_HANDLE_ID_PREFIX)

(* arguments of createDependency *)
dependencyParams_Swapped(params) ==
    [tableId |-> params.source, dependentTableId |-> params.target]

dependencyParams(params) ==
    [tableId |-> params.target, dependentTableId |-> params.source]

(* arguments of createRelationship *)
relationshipParams_Swapped(params) ==
    [sourceTableId |-> params.target,
     targetTableId |-> params.source,
     sourceFieldId |-> splitPop(params.targetHandle),
     targetFieldId |-> splitPop(params.sourceHandle)]

relationshipParams(params) ==
    [sourceTableId |-> params.source,
     targetTableId |-> params.target,
     sourceFieldId |-> splitPop(params.sourceHandle),
     targetFieldId |-> splitPop(params.targetHandle)]

(* the branch taken when the predicate rejects the two field types *)
rejectIncompatible_Silent(h) == h

rejectIncompatible(h) == toast(h, "Field types are not compatible")

onConnectHandler(params) ==
    IF isDependencyHandle(params.sourceHandle)
    THEN createDependency(Invoked("onConnectHandler", params),
                          dependencyParams(params))
    ELSE
        LET H1 == Invoked("onConnectHandler", params)
            a == relationshipParams(params)
            sourceField == getField(a.sourceTableId, a.sourceFieldId)
            targetField == getField(a.targetTableId, a.targetFieldId)
        IN  IF sourceField = NullField \/ targetField = NullField
            THEN H1
            ELSE IF ~areFieldTypesCompatible(sourceField.type, targetField.type)
            THEN rejectIncompatible(
                    consulted(H1, sourceField.type, targetField.type))
            ELSE createRelationship(
                    consulted(H1, sourceField.type, targetField.type), a)

-----------------------------------------------------------------------------
(* View projection (the effect that rebuilds the node list) *)

(* calcTableHeight: the height of a table grows with its fields *)
calcTableHeight(fields) == IF fields = <<>> THEN 1 ELSE Len(fields)

(* the view options of the projection: the ids the filter excludes, whether
   the filter is loading, whether views are shown, and the ids of the tables
   that checkIfNewTable reports (shouldForceShowTable) *)
View(filter, filterLoading, showDBViews, newTables) ==
    [filter |-> filter, filterLoading |-> filterLoading,
     showDBViews |-> showDBViews, newTables |-> newTables]

DefaultView == View({}, FALSE, TRUE, {})

(* filterTable({table, filter, options}) *)
filterTable(table, v) == table.id \notin v.filter

(* shouldForceShowTable(table.id) *)
shouldForceShowTable(tableId, v) == tableId \in v.newTables

tableToTableNode_IgnoreForceShow(table, v) ==
    [id |-> table.id, type |-> "table", x |-> table.x, y |-> table.y,
     mw |-> 0, mh |-> 0, fh |-> calcTableHeight(table.fields),
     selected |-> FALSE,
     hidden |-> \/ ~filterTable(table, v)
                \/ v.filterLoading
                \/ (~v.showDBViews /\ table.isView)]

(* measured width / height 0 stand for a node not measured yet; fh is the
   height calculated from node.data.table *)
tableToTableNode(table, v) ==
    [id |-> table.id, type |-> "table", x |-> table.x, y |-> table.y,
     mw |-> 0, mh |-> 0, fh |-> calcTableHeight(table.fields),
     selected |-> FALSE,
     hidden |-> IF shouldForceShowTable(table.id, v)
                THEN FALSE
                ELSE \/ ~filterTable(table, v)
                     \/ v.filterLoading
                     \/ (~v.showDBViews /\ table.isView)]

areaToAreaNode_EmptyHidden(area, tbls, v) ==
    [id |-> area.id, type |-> "area", x |-> area.x, y |-> area.y,
     mw |-> 0, mh |-> 0, fh |-> 0, selected |-> FALSE,
     hidden |-> \/ v.filterLoading
                \/ ~Some(tbls, LAMBDA t : t.parentAreaId = area.id /\ filterTable(t, v))]

areaToAreaNode(area, tbls, v) ==
    LET tablesInArea == SelectSeq(tbls, LAMBDA t : t.parentAreaId = area.id)
        hasVisibleTable ==
            \/ Len(tablesInArea) = 0
            \/ Some(tablesInArea, LAMBDA t : filterTable(t, v))
    IN  [id |-> area.id, type |-> "area", x |-> area.x, y |-> area.y,
         mw |-> 0, mh |-> 0, fh |-> 0, selected |-> FALSE,
         hidden |-> ~hasVisibleTable \/ v.filterLoading]

noteToNoteNode(note) ==
    [id |-> note.id, type |-> "note", x |-> note.x, y |-> note.y,
     mw |-> 0, mh |-> 0, fh |-> 0, selected |-> FALSE, hidden |-> FALSE]

(* const newNodes = [...] of the projection effect *)
newNodesOf(tbls, ars, nts, v) ==
    SeqMap(LAMBDA t : tableToTableNode(t, v), tbls)
    \o SeqMap(LAMBDA a : areaToAreaNode(a, tbls, v), ars)
    \o SeqMap(noteToNoteNode, nts)

projectNodes_KeepPosition(tbls, ars, nts, v, prevNodes) ==
    SeqMap(LAMBDA n :
              IF \E p \in Range(prevNodes) : p.id = n.id
              THEN LET p == CHOOSE p \in Range(prevNodes) : p.id = n.id
                   IN  [n EXCEPT !.x = p.x, !.y = p.y]
              ELSE n,
           newNodesOf(tbls, ars, nts, v))

(* setNodes((prevNodes) => ...) of the projection effect *)
projectNodes(tbls, ars, nts, v, prevNodes) ==
    LET newNodes == newNodesOf(tbls, ars, nts, v)
    IN  IF prevNodes = newNodes THEN prevNodes ELSE newNodes

(* useReactFlow().getNode: a missing node is a record with type "none" *)
NoNode ==
    [id |-> "", type |-> "none", x |-> 0, y |-> 0, mw |-> 0, mh |-> 0, fh |-> 0,
     selected |-> FALSE, hidden |-> FALSE]

getNodeIn(nds, id) ==
    LET found == SelectSeq(nds, LAMBDA n : n.id = id)
    IN  IF found = <<>> THEN NoNode ELSE found[1]

getNode(id) == getNodeIn(nodes, id)

-----------------------------------------------------------------------------
(* Edge reconciliation (the effect that regenerates the edge list) *)

DEFAULT_EDGE_Z_INDEX == 0

targetIndex_ListPosition(rels, i) == i - 1

(* targetIndexes[key]++ : how many earlier relationships share the key *)
targetIndex(rels, i) ==
    Cardinality({j \in 1..(i - 1) :
        rels[j].targetTableId \o rels[j].targetFieldId
            = rels[i].targetTableId \o rels[i].targetFieldId})

targetDepIndex(deps, i) ==
    Cardinality({j \in 1..(i - 1) : deps[j].tableId = deps[i].tableId})

prevEdgeState_Reset(prevEdges, id) == [selected |-> FALSE, animated |-> FALSE]

(* prevEdgeStates.get(id): selected / animated of the previous edge *)
prevEdgeState(prevEdges, id) ==
    LET found == SelectSeq(prevEdges, LAMBDA e : e.id = id)
    IN  IF found = <<>> THEN [selected |-> FALSE, animated |-> FALSE]
        ELSE [selected |-> Last(found).selected, animated |-> Last(found).animated]

regenerateEdges(rels, deps, prevEdges, showDBViews) ==
    [i \in DOMAIN rels |->
        [id |-> rels[i].id,
         source |-> rels[i].sourceTableId,
         target |-> rels[i].targetTableId,
         sourceHandle |-> LEFT_HANDLE_ID_PREFIX \o <<rels[i].sourceFieldId>>,
         targetHandle |-> TARGET_ID_PREFIX
                            \o <<ToString(targetIndex(rels, i)), rels[i].targetFieldId>>,
         type |-> "relationship-edge",
         hidden |-> FALSE,
         selected |-> prevEdgeState(prevEdges, rels[i].id).selected,
         animated |-> prevEdgeState(prevEdges, rels[i].id).animated,
         highlighted |-> FALSE,
         zIndex |-> DEFAULT_EDGE_Z_INDEX]]
    \o
    [i \in DOMAIN deps |->
        [id |-> deps[i].id,
         source |-> deps[i].dependentTableId,
         target |-> deps[i].tableId,
         sourceHandle |-> TOP_SOURCE_HANDLE_ID_PREFIX \o <<deps[i].dependentTableId>>,
         targetHandle |-> TARGET_DEP_PREFIX
                            \o <<ToString(targetDepIndex(deps, i)), deps[i].tableId>>,
         type |-> "dependency-edge",
         hidden |-> ~showDBViews,
         selected |-> prevEdgeState(prevEdges, deps[i].id).selected,
         animated |-> prevEdgeState(prevEdges, deps[i].id).animated,
         highlighted |-> FALSE,
         zIndex |-> DEFAULT_EDGE_Z_INDEX]]

NoEdge == [id |-> "", type |-> "none"]

(* useReactFlow().getEdge *)
getEdge(id) ==
    LET found == SelectSeq(edges, LAMBDA e : e.id = id)
    IN  IF found = <<>> THEN NoEdge ELSE found[1]

-----------------------------------------------------------------------------
(* Persistence scheduler: the debounced save effect *)

(* `absorbed` tells how many runs of the effect the pending timer stands
   for: 0 none, 1 one, 2 two or more *)
NoTimer == [pending |-> FALSE, absorbed |-> 0]

Coalesce(absorbed) == IF absorbed = 0 THEN 1 ELSE 2

(* what the timeout callback closes over *)
Closure(h) ==
    [tables |-> h.tables, areas |-> h.areas, notes |-> h.notes,
     relationships |-> h.relationships, dependencies |-> h.dependencies,
     customTypes |-> h.customTypes]

SaveDeps_MissingRelationships ==
    {"saveTrigger", "tables", "areas", "notes", "dependencies", "customTypes",
     "diagram"}

(* the effect's dependency array *)
SaveDeps ==
    {"saveTrigger", "tables", "areas", "notes", "relationships",
     "dependencies", "customTypes", "diagram"}

MaxSaveTimeouts == 2

clearTimeout_Never(timer, timeouts) == timeouts

(* clearTimeout(saveDiagramTimeoutRef.current): the timeouts the browser
   holds afterwards; clearing one that fired or was cleared does nothing *)
clearTimeout(timer, timeouts) ==
    IF timer.pending THEN timeouts - 1 ELSE timeouts

saveEffect_SkipWhileSaving(h, did) ==
    IF did = Null \/ inflight # {}
    THEN [timer |-> saveTimer, cleanup |-> saveCleanup, timeouts |-> saveTimeouts]
    ELSE [timer |-> [pending |-> TRUE, absorbed |-> Coalesce(saveTimer.absorbed),
                     closure |-> Closure(h)],
          cleanup |-> TRUE,
          timeouts |-> clearTimeout(saveTimer, saveTimeouts) + 1]

(* one run of the effect: cleanup of the previous run, then the body *)
saveEffect(h, did) ==
    LET afterCleanup == IF saveCleanup THEN NoTimer ELSE saveTimer
        held == IF saveCleanup THEN clearTimeout(saveTimer, saveTimeouts)
                ELSE saveTimeouts
    IN  IF did = Null
        THEN [timer |-> afterCleanup, cleanup |-> FALSE, timeouts |-> held]
        ELSE [timer |-> [pending |-> TRUE, absorbed |-> Coalesce(saveTimer.absorbed),
                         closure |-> Closure(h)],
              cleanup |-> TRUE,
              timeouts |-> clearTimeout(afterCleanup, held) + 1]

-----------------------------------------------------------------------------
(* The React commit after a handler: queued state updates are applied and  *)
(* the effects whose dependencies changed run.                             *)

HIGHLIGHTED_EDGE_Z_INDEX == 1

(* nodes.filter((node) => node.selected).map((node) => node.id), and the
   same for edges *)
selectedIds(list) ==
    SeqMap(LAMBDA e : e.id, SelectSeq(list, LAMBDA e : e.selected))

shouldBeHighlighted(edge, selTableIds, selRelationshipIds) ==
    \/ Some(selRelationshipIds, LAMBDA i : i = edge.id)
    \/ Some(selTableIds, LAMBDA i : i = edge.source)
    \/ Some(selTableIds, LAMBDA i : i = edge.target)

zIndexOf(highlighted) ==
    IF highlighted THEN HIGHLIGHTED_EDGE_Z_INDEX ELSE DEFAULT_EDGE_Z_INDEX

(* "Skip if no changes needed": the edge object is returned as it is *)
needsNoChange(edge, should) ==
    /\ edge.highlighted = should
    /\ edge.animated = should
    /\ edge.zIndex = zIndexOf(should)

highlightEdge_AlwaysRebuild(edge, selTableIds, selRelationshipIds) ==
    [edge |-> [edge EXCEPT
                 !.highlighted = shouldBeHighlighted(edge, selTableIds, selRelationshipIds),
                 !.animated = shouldBeHighlighted(edge, selTableIds, selRelationshipIds),
                 !.zIndex = zIndexOf(shouldBeHighlighted(edge, selTableIds, selRelationshipIds))],
     rebuilt |-> TRUE]

(* the map callback of the highlight effect: the edge it returns, and
   whether that is a new object *)
highlightEdge(edge, selTableIds, selRelationshipIds) ==
    LET should == shouldBeHighlighted(edge, selTableIds, selRelationshipIds)
    IN  IF needsNoChange(edge, should)
        THEN [edge |-> edge, rebuilt |-> FALSE]
        ELSE [edge |-> [edge EXCEPT !.highlighted = should,
                                    !.animated = should,
                                    !.zIndex = zIndexOf(should)],
              rebuilt |-> TRUE]

(* setEdges((prevEdges) => ...) of the highlight effect: the list it returns,
   the ids of the edges it rebuilt, and whether the list is a new array *)
highlightEdges(prevEdges, selTableIds, selRelationshipIds) ==
    LET mapped == [i \in DOMAIN prevEdges |->
                      highlightEdge(prevEdges[i], selTableIds, selRelationshipIds)]
        hasChanges == \E i \in DOMAIN mapped : mapped[i].rebuilt
    IN  [edges |-> IF hasChanges
                   THEN [i \in DOMAIN mapped |-> mapped[i].edge]
                   ELSE prevEdges,
         rebuilt |-> {mapped[i].edge.id : i \in {i \in DOMAIN mapped : mapped[i].rebuilt}},
         hasChanges |-> hasChanges]

(* what an effect handed to its state setter: whether the list is a new
   array, and the ids of the elements that are new objects *)
Signal(effect, changed, rebuilt) ==
    [effect |-> effect, changed |-> changed, rebuilt |-> rebuilt]

(* the dependency array of the node projection effect *)
NodeDeps == {"tables", "areas", "notes", "view"}

EdgeDeps_None == {}

(* the dependency array of the edge regeneration effect *)
EdgeDeps == {"relationships", "dependencies", "showDBViews"}

Render(h) ==
    /\ h.idCounter <= MaxIds
    /\ h.saveTrigger <= MaxSaveTrigger
    /\ tables' = h.tables
    /\ areas' = h.areas
    /\ notes' = h.notes
    /\ relationships' = h.relationships
    /\ dependencies' = h.dependencies
    /\ customTypes' = h.customTypes
    /\ idCounter' = h.idCounter
    /\ saveTrigger' = h.saveTrigger
    /\ calls' = h.calls
    /\ view' = h.view
    /\ LET regenerated ==
                IF h.touched \cap EdgeDeps # {}
                THEN regenerateEdges(h.relationships, h.dependencies, h.edges,
                                     h.view.showDBViews)
                ELSE h.edges
           projected ==
                IF h.touched \cap NodeDeps # {}
                THEN projectNodes(h.tables, h.areas, h.notes, h.view, h.nodes)
                ELSE h.nodes
           \* the nodes carry their entity (data.table, data.area, data.note)
           dataChanged ==
                h.tables # tables \/ h.areas # areas \/ h.notes # notes
           selTableIds == selectedIds(projected)
           selRelationshipIds == selectedIds(regenerated)
           runHighlight == \/ selTableIds # selectedTableIds
                           \/ selRelationshipIds # selectedRelationshipIds
           highlighted == highlightEdges(regenerated, selTableIds, selRelationshipIds)
       IN  /\ nodes' = projected
           /\ edges' = IF runHighlight THEN highlighted.edges ELSE regenerated
           /\ selectedTableIds' = selTableIds
           /\ selectedRelationshipIds' = selRelationshipIds
           /\ signals' =
                (IF h.touched \cap NodeDeps # {}
                 THEN <<Signal("projection", projected # h.nodes \/ dataChanged, {})>>
                 ELSE <<>>)
                \o (IF runHighlight
                    THEN <<Signal("highlight", highlighted.hasChanges,
                                  highlighted.rebuilt)>>
                    ELSE <<>>)
    /\ IF h.touched \cap SaveDeps # {}
       THEN /\ saveTimer' = saveEffect(h, diagramId).timer
            /\ saveCleanup' = saveEffect(h, diagramId).cleanup
            /\ saveTimeouts' = saveEffect(h, diagramId).timeouts
            /\ saveTimeouts' <= MaxSaveTimeouts
       ELSE UNCHANGED <<saveTimer, saveCleanup, saveTimeouts>>
    /\ mounted
    /\ UNCHANGED <<readonly, diagramId, inflight, store, lastIssued,
                   mounted, tempFloatingEdge, rafId, frames, cursorPosition, appVars>>

(* a commit that concerns neither the overlap graph nor a drag gesture *)
Commit(h) ==
    Render(h) /\ UNCHANGED <<overlapGraph, overlapTimers, dragStart, parentTimers>>

(* a connection gesture is released on a handle *)
Connect(params) == Commit(onConnectHandler(params))

-----------------------------------------------------------------------------
(* onEdgesChangeHandler *)

EdgeChange(type, id, selected) == [type |-> type, id |-> id, selected |-> selected]

(* useChartDB().removeRelationships *)
removeRelationships(h, ids) ==
    [h EXCEPT
        !.relationships = SelectSeq(@, LAMBDA r : ~Some(ids, LAMBDA i : i = r.id)),
        !.calls = Append(@, [fn |-> "removeRelationships", arg |-> ids]),
        !.touched = @ \cup {"relationships"}]

(* useChartDB().removeDependencies *)
removeDependencies(h, ids) ==
    [h EXCEPT
        !.dependencies = SelectSeq(@, LAMBDA d : ~Some(ids, LAMBDA i : i = d.id)),
        !.calls = Append(@, [fn |-> "removeDependencies", arg |-> ids]),
        !.touched = @ \cup {"dependencies"}]

(* onEdgesChange of useEdgesState: applyEdgeChanges *)
applyEdgeChange(eds, change) ==
    IF change.type = "remove"
    THEN SelectSeq(eds, LAMBDA e : e.id # change.id)
    ELSE IF change.type = "select"
    THEN SeqMap(LAMBDA e : IF e.id = change.id
                           THEN [e EXCEPT !.selected = change.selected]
                           ELSE e, eds)
    ELSE eds

RECURSIVE applyEdgeChanges(_, _)
applyEdgeChanges(changes, eds) ==
    IF changes = <<>> THEN eds
    ELSE applyEdgeChanges(Tail(changes), applyEdgeChange(eds, Head(changes)))

onEdgesChange(h, changes) ==
    [h EXCEPT
        !.edges = applyEdgeChanges(changes, @),
        !.calls = Append(@, [fn |-> "onEdgesChange", arg |-> changes])]

edgesFilterReadonly_None(changes) == changes

edgesFilterReadonly(changes) ==
    IF readonly
    THEN SelectSeq(changes, LAMBDA c : c.type # "remove")
    ELSE changes

edgeIdsOfType_Any(edgesToRemove, type) == SeqMap(LAMBDA e : e.id, edgesToRemove)

(* the ids of the edges to remove that have the given edge type *)
edgeIdsOfType(edgesToRemove, type) ==
    SeqMap(LAMBDA e : e.id, SelectSeq(edgesToRemove, LAMBDA e : e.type = type))

onEdgesChangeHandler(changes) ==
    LET changesToApply == edgesFilterReadonly(changes)
        removeChanges == SelectSeq(changesToApply, LAMBDA c : c.type = "remove")
        edgesToRemove ==
            SelectSeq(SeqMap(LAMBDA c : getEdge(c.id), removeChanges),
                      LAMBDA e : e # NoEdge)
        relationshipsToRemove == edgeIdsOfType(edgesToRemove, "relationship-edge")
        dependenciesToRemove == edgeIdsOfType(edgesToRemove, "dependency-edge")
        h0 == Invoked("onEdgesChangeHandler", changes)
        h1 == IF Len(relationshipsToRemove) > 0
              THEN removeRelationships(h0, relationshipsToRemove)
              ELSE h0
        h2 == IF Len(dependenciesToRemove) > 0
              THEN removeDependencies(h1, dependenciesToRemove)
              ELSE h1
    IN  onEdgesChange(h2, changesToApply)

(* React Flow reports a batch of edge changes *)
EdgesChange(changes) == Commit(onEdgesChangeHandler(changes))

-----------------------------------------------------------------------------
(* onNodesChangeHandler *)

(* NodeChange: posOk is FALSE when change.position is undefined *)
PositionChange(id, x, y, dragging) ==
    [type |-> "position", id |-> id, x |-> x, y |-> y, posOk |-> TRUE,
     dragging |-> dragging, w |-> 0, h |-> 0, resizing |-> FALSE,
     selected |-> FALSE]

DimensionsChange(id, w, h, resizing) ==
    [type |-> "dimensions", id |-> id, x |-> 0, y |-> 0, posOk |-> FALSE,
     dragging |-> FALSE, w |-> w, h |-> h, resizing |-> resizing,
     selected |-> FALSE]

RemoveChange(id) ==
    [type |-> "remove", id |-> id, x |-> 0, y |-> 0, posOk |-> FALSE,
     dragging |-> FALSE, w |-> 0, h |-> 0, resizing |-> FALSE,
     selected |-> FALSE]

SelectChange(id, selected) ==
    [type |-> "select", id |-> id, x |-> 0, y |-> 0, posOk |-> FALSE,
     dragging |-> FALSE, w |-> 0, h |-> 0, resizing |-> FALSE,
     selected |-> selected]

RECURSIVE FlatMap(_, _)
FlatMap(f(_), s) == IF s = <<>> THEN <<>> ELSE f(Head(s)) \o FlatMap(f, Tail(s))

isSettledPosition_AnyPosition(c) == c.type = "position" /\ c.posOk

(* a position change that ends a drag *)
isSettledPosition(c) == c.type = "position" /\ ~c.dragging /\ c.posOk

isResizing(c) == c.type = "dimensions" /\ c.resizing

isRemove(c) == c.type = "remove"

findRelevantNodesChanges(changes, type) ==
    LET relevantChanges ==
            SelectSeq(changes, LAMBDA c :
                /\ isSettledPosition(c) \/ isResizing(c) \/ isRemove(c)
                /\ getNode(c.id) # NoNode
                /\ getNode(c.id).type = type)
    IN  [positionChanges |-> SelectSeq(relevantChanges, isSettledPosition),
         removeChanges |-> SelectSeq(relevantChanges, isRemove),
         sizeChanges |-> SelectSeq(relevantChanges, isResizing)]

nodesFilterReadonly_None(changes) == changes

nodesFilterReadonly(changes) ==
    IF readonly
    THEN SelectSeq(changes, LAMBDA c : c.type # "remove")
    ELSE changes

(* getTablesInArea(areaId, tables) *)
getTablesInArea(areaId, tbls) == SelectSeq(tbls, LAMBDA t : t.parentAreaId = areaId)

findArea(id) == SelectSeq(areas, LAMBDA a : a.id = id)

childChanges_None(areaChange) == <<>>

(* visual position changes of the child tables of a dragged area *)
childChanges(areaChange) ==
    IF findArea(areaChange.id) # <<>> /\ areaChange.posOk
    THEN LET currentArea == findArea(areaChange.id)[1]
             deltaX == areaChange.x - currentArea.x
             deltaY == areaChange.y - currentArea.y
         IN  SeqMap(LAMBDA t : PositionChange(t.id, t.x + deltaX, t.y + deltaY, TRUE),
                    SelectSeq(tables, LAMBDA t : t.parentAreaId = areaChange.id))
    ELSE <<>>

(* useChartDB().updateTablesState: the tables the updater returns replace
   the attributes they carry; tables it does not return are dropped, and the
   relationships and dependencies of a dropped table go with it *)
updateTablesState(h, updated, options) ==
    LET dropped == Ids(h.tables) \ Ids(updated)
        keptRelationships ==
            SelectSeq(h.relationships, LAMBDA r :
                r.sourceTableId \notin dropped /\ r.targetTableId \notin dropped)
        keptDependencies ==
            SelectSeq(h.dependencies, LAMBDA d :
                d.tableId \notin dropped /\ d.dependentTableId \notin dropped)
    IN  [h EXCEPT
            !.tables = updated,
            !.relationships = keptRelationships,
            !.dependencies = keptDependencies,
            !.calls = Append(@, [fn |-> "updateTablesState", arg |-> options]),
            !.touched = @ \cup {"tables"}
                \cup (IF keptRelationships # h.relationships
                      THEN {"relationships"} ELSE {})
                \cup (IF keptDependencies # h.dependencies
                      THEN {"dependencies"} ELSE {})]

syncTableFromNode_NoChange(table) == table

(* the updater of the position commit: positions and measured width are
   read back from the rendered nodes *)
syncTableFromNode(table) ==
    LET node == getNode(table.id)
    IN  IF node # NoNode
        THEN [table EXCEPT !.x = node.x, !.y = node.y,
                           !.width = IF node.mw # 0 THEN node.mw ELSE @]
        ELSE table

removeTablesUpdater_DeleteMembers(currentTables, removeChanges, areaRemoveChanges) ==
    SelectSeq(currentTables, LAMBDA t :
        /\ ~Some(areaRemoveChanges, LAMBDA c : c.id = t.parentAreaId)
        /\ ~Some(removeChanges, LAMBDA c : c.id = t.id))

(* the updater of the removal commit *)
removeTablesUpdater(currentTables, removeChanges, areaRemoveChanges) ==
    SelectSeq(
        SeqMap(LAMBDA t : IF Some(areaRemoveChanges, LAMBDA c : c.id = t.parentAreaId)
                          THEN [t EXCEPT !.parentAreaId = Null]
                          ELSE t,
               currentTables),
        LAMBDA t : ~Some(removeChanges, LAMBDA c : c.id = t.id))

setSaveTrigger(h) ==
    [h EXCEPT !.saveTrigger = @ + 1, !.touched = @ \cup {"saveTrigger"}]

(* useChartDB().removeArea *)
removeArea(h, id) ==
    [h EXCEPT
        !.areas = SelectSeq(@, LAMBDA a : a.id # id),
        !.calls = Append(@, [fn |-> "removeArea", arg |-> id]),
        !.touched = @ \cup {"areas"}]

(* useChartDB().removeNote *)
removeNote(h, id) ==
    [h EXCEPT
        !.notes = SelectSeq(@, LAMBDA n : n.id # id),
        !.calls = Append(@, [fn |-> "removeNote", arg |-> id]),
        !.touched = @ \cup {"notes"}]

RECURSIVE removeEach(_, _, _)
removeEach(h, changes, kind) ==
    IF changes = <<>> THEN h
    ELSE removeEach(IF kind = "area" THEN removeArea(h, Head(changes).id)
                                     ELSE removeNote(h, Head(changes).id),
                    Tail(changes), kind)

(* onNodesChange of useNodesState: applyNodeChanges *)
applyNodeChange(nds, change) ==
    IF change.type = "remove"
    THEN SelectSeq(nds, LAMBDA n : n.id # change.id)
    ELSE IF change.type = "position" /\ change.posOk
    THEN SeqMap(LAMBDA n : IF n.id = change.id
                           THEN [n EXCEPT !.x = change.x, !.y = change.y]
                           ELSE n, nds)
    ELSE IF change.type = "dimensions"
    THEN SeqMap(LAMBDA n : IF n.id = change.id
                           THEN [n EXCEPT !.mw = change.w, !.mh = change.h]
                           ELSE n, nds)
    ELSE IF change.type = "select"
    THEN SeqMap(LAMBDA n : IF n.id = change.id
                           THEN [n EXCEPT !.selected = change.selected]
                           ELSE n, nds)
    ELSE nds

RECURSIVE applyNodeChanges(_, _)
applyNodeChanges(changes, nds) ==
    IF changes = <<>> THEN nds
    ELSE applyNodeChanges(Tail(changes), applyNodeChange(nds, Head(changes)))

onNodesChange(h, changes) ==
    [h EXCEPT
        !.nodes = applyNodeChanges(changes, @),
        !.calls = Append(@, [fn |-> "onNodesChange", arg |-> changes])]

(* the debounced overlap-graph update is scheduled with the table changes *)
updateOverlappingGraphOnChangesDebounced(h, positionChanges, sizeChanges) ==
    [h EXCEPT
        !.calls = Append(@, [fn |-> "updateOverlappingGraphOnChangesDebounced",
                             arg |-> [positionChanges |-> positionChanges,
                                      sizeChanges |-> sizeChanges]])]

onNodesChangeHandler(changes) ==
    LET filtered == nodesFilterReadonly(changes)
        areaDragChanges ==
            SelectSeq(filtered, LAMBDA c :
                c.type = "position" /\ getNode(c.id).type = "area" /\ c.dragging)
        additionalChanges == FlatMap(childChanges, areaDragChanges)
        changesToApply == filtered \o additionalChanges
        area == findRelevantNodesChanges(changesToApply, "area")
        note == findRelevantNodesChanges(changesToApply, "note")
        table == findRelevantNodesChanges(changesToApply, "table")
        childTableMovements ==
            IF Len(area.positionChanges) > 0 /\ Len(area.sizeChanges) = 0
            THEN {t.id : t \in UNION {Range(getTablesInArea(c.id, tables)) :
                        c \in {c \in Range(area.positionChanges) : findArea(c.id) # <<>>}}}
            ELSE {}
        h0 == Invoked("onNodesChangeHandler", changes)
        h1 == IF \/ Len(table.positionChanges) > 0
                 \/ Len(table.sizeChanges) > 0
                 \/ childTableMovements # {}
              THEN setSaveTrigger(
                     updateTablesState(h0, SeqMap(syncTableFromNode, h0.tables),
                        [kind |-> "sync", updateHistory |-> FALSE, skipPersist |-> TRUE]))
              ELSE h0
        h2 == IF \/ Len(area.positionChanges) > 0
                 \/ Len(area.sizeChanges) > 0
                 \/ Len(note.positionChanges) > 0
                 \/ Len(note.sizeChanges) > 0
              THEN setSaveTrigger(h1)
              ELSE h1
        h3 == IF Len(table.removeChanges) > 0 \/ Len(area.removeChanges) > 0
              THEN updateTablesState(h2,
                      removeTablesUpdater(h2.tables, table.removeChanges,
                                          area.removeChanges),
                      [kind |-> "remove",
                       updateHistory |-> Len(table.removeChanges) > 0,
                       skipPersist |-> FALSE])
              ELSE h2
        h4 == removeEach(h3, area.removeChanges, "area")
        h5 == removeEach(h4, note.removeChanges, "note")
        h6 == updateOverlappingGraphOnChangesDebounced(
                  h5, table.positionChanges, table.sizeChanges)
    IN  onNodesChange(h6, changesToApply)

(* React Flow reports a batch of node changes *)
NodesChange(changes) == Commit(onNodesChangeHandler(changes))

-----------------------------------------------------------------------------
(* The save timeout callback and the asynchronous write *)

(* positions and measured sizes are read back from the rendered nodes *)
syncTable(nds, table) ==
    LET node == getNodeIn(nds, table.id)
    IN  IF node # NoNode
        THEN [table EXCEPT !.x = node.x, !.y = node.y,
                           !.width = IF node.mw # 0 THEN node.mw ELSE @]
        ELSE table

syncBox(nds, box) ==
    LET node == getNodeIn(nds, box.id)
    IN  IF node # NoNode
        THEN [box EXCEPT !.x = node.x, !.y = node.y,
                         !.width = IF node.mw # 0 /\ node.mh # 0 THEN node.mw ELSE @,
                         !.height = IF node.mw # 0 /\ node.mh # 0 THEN node.mh ELSE @]
        ELSE box

diagramToSave_NoSync(c, nds) == c

(* diagramToSave.content *)
diagramToSave(c, nds) ==
    [tables |-> SeqMap(LAMBDA t : syncTable(nds, t), c.tables),
     relationships |-> c.relationships,
     dependencies |-> c.dependencies,
     areas |-> SeqMap(LAMBDA a : syncBox(nds, a), c.areas),
     notes |-> SeqMap(LAMBDA n : syncBox(nds, n), c.notes),
     customTypes |-> c.customTypes]

(* the 500 ms timer fires: one write is issued.  The request is known by
   its number from then on; its body is fixed when the call is made *)
SaveTimeoutFires ==
    /\ saveTimer.pending
    /\ lastIssued.seq < MaxWrites
    /\ LET w == [seq |-> lastIssued.seq + 1]
       IN  /\ inflight' = inflight \cup {w}
           /\ lastIssued' = w
           /\ calls' = <<[fn |-> "saveTimeout", arg |-> saveTimer.absorbed],
                         [fn |-> "vertexApi.saveDiagram",
                          arg |-> [seq |-> w.seq,
                                   content |-> diagramToSave(saveTimer.closure, nodes)]]>>
    /\ saveTimer' = NoTimer
    /\ saveTimeouts' = saveTimeouts - 1
    /\ UNCHANGED <<tables, areas, notes, relationships, dependencies, customTypes,
                   readonly, diagramId, idCounter, nodes, edges, saveTrigger,
                   saveCleanup, store,
                   overlapGraph, overlapTimers, dragStart, parentTimers,
         view, selectedTableIds, selectedRelationshipIds, signals,
         mounted, tempFloatingEdge, rafId, frames, cursorPosition, appVars>>

(* the POST reaches the backing store, which replaces the diagram, and the
   response resolves the await *)
SaveDiagramResolves(w) ==
    /\ w \in inflight
    /\ inflight' = inflight \ {w}
    /\ store' = w
    /\ calls' = <<[fn |-> "saveDiagram.resolved", arg |-> w.seq]>>
    /\ UNCHANGED <<tables, areas, notes, relationships, dependencies, customTypes,
                   readonly, diagramId, idCounter, nodes, edges, saveTrigger,
                   saveTimer, saveCleanup, lastIssued,
                   overlapGraph, overlapTimers, dragStart, parentTimers,
         view, selectedTableIds, selectedRelationshipIds, signals,
         saveTimeouts, mounted, tempFloatingEdge, rafId, frames, cursorPosition, appVars>>

SaveDiagramRejects_Retry(w) ==
    /\ w \in inflight
    /\ inflight' = inflight \ {w}
    /\ saveTimer' = [pending |-> TRUE, absorbed |-> 1,
                     closure |-> Closure(H0)]
    /\ calls' = <<[fn |-> "saveDiagram.rejected", arg |-> w.seq],
                  [fn |-> "console.error", arg |-> "Failed to save diagram"]>>
    /\ UNCHANGED <<tables, areas, notes, relationships, dependencies, customTypes,
                   readonly, diagramId, idCounter, nodes, edges, saveTrigger,
                   saveCleanup, store, lastIssued,
                   overlapGraph, overlapTimers, dragStart, parentTimers,
         view, selectedTableIds, selectedRelationshipIds, signals,
         saveTimeouts, mounted, tempFloatingEdge, rafId, frames, cursorPosition, appVars>>

(* the POST fails (network error or a response that is not ok): the catch
   block logs the error *)
SaveDiagramRejects(w) ==
    /\ w \in inflight
    /\ inflight' = inflight \ {w}
    /\ calls' = <<[fn |-> "saveDiagram.rejected", arg |-> w.seq],
                  [fn |-> "console.error", arg |-> "Failed to save diagram"]>>
    /\ UNCHANGED <<tables, areas, notes, relationships, dependencies, customTypes,
                   readonly, diagramId, idCounter, nodes, edges, saveTrigger,
                   saveTimer, saveCleanup, store, lastIssued,
                   overlapGraph, overlapTimers, dragStart, parentTimers,
         view, selectedTableIds, selectedRelationshipIds, signals,
         saveTimeouts, mounted, tempFloatingEdge, rafId, frames, cursorPosition, appVars>>

(* a collaborator adds a custom type: useChartDB().customTypes changes *)
CustomTypesChange ==
    /\ Len(customTypes) < MaxCustomTypes
    /\ Commit([Invoked("customTypes", Len(customTypes) + 1) EXCEPT
                !.customTypes = Append(@, [id |-> "c" \o ToString(Len(@) + 1)]),
                !.touched = {"customTypes"}])

-----------------------------------------------------------------------------
(* Overlap graph: table id -> set of the table ids whose box intersects *)

(* side of a table that carries no width / of a node not measured yet *)
MIN_TABLE_SIZE == 1

Box(x, y, w, h) == [x |-> x, y |-> y, w |-> w, h |-> h]

tableBox(table) ==
    Box(table.x, table.y,
        IF table.width # 0 THEN table.width ELSE MIN_TABLE_SIZE,
        calcTableHeight(table.fields))

nodeBox(node) ==
    Box(node.x, node.y,
        IF node.mw # 0 THEN node.mw ELSE MIN_TABLE_SIZE,
        IF node.mh # 0 THEN node.mh ELSE node.fh)

(* the two boxes share a point of positive area *)
intersects(a, b) ==
    /\ a.x < b.x + b.w /\ b.x < a.x + a.w
    /\ a.y < b.y + b.h /\ b.y < a.y + a.h

createGraph == [v \in {} |-> {}]

(* findOverlappingTables: full rebuild over the tables given *)
findOverlappingTables(tbls) ==
    [v \in Ids(tbls) |->
        {o.id : o \in {o \in Range(tbls) :
                        o.id # v /\ \E t \in Range(tbls) :
                            t.id = v /\ intersects(tableBox(t), tableBox(o))}}]

(* removeVertex: the vertex goes, and leaves every adjacency set *)
removeVertex(graph, id) ==
    [v \in DOMAIN graph \ {id} |-> graph[v] \ {id}]

(* findTableOverlapping: the entry of one node is recomputed against the
   other nodes given, and the reverse entries follow; a missing node leaves
   the graph as it is *)
findTableOverlapping(node, nds, graph) ==
    IF node = NoNode THEN graph
    ELSE LET others == {n \in Range(nds) : n.id # node.id}
             hit == {n.id : n \in {n \in others :
                                    intersects(nodeBox(node), nodeBox(n))}}
         IN  [v \in DOMAIN graph \cup {node.id} \cup hit |->
                IF v = node.id THEN hit
                ELSE IF v \in hit
                     THEN (IF v \in DOMAIN graph THEN graph[v] ELSE {}) \cup {node.id}
                     ELSE graph[v] \ {node.id}]

(* rafIdRef.current is undefined *)
NoFrame == 0

(* cursorPosition is null *)
NoPosition == [set |-> FALSE]

(* no drag gesture is in progress *)
NoDrag == [id |-> Null, nodes |-> <<>>]

-----------------------------------------------------------------------------
(* Parent-area reassignment (the checkParentAreas effect)                  *)

MaxParentTimers == 3

(* the table's bounds lie fully inside the area's bounds *)
isTableInsideArea(table, area) ==
    /\ area.x <= tableBox(table).x
    /\ tableBox(table).x + tableBox(table).w <= area.x + area.width
    /\ area.y <= tableBox(table).y
    /\ tableBox(table).y + tableBox(table).h <= area.y + area.height

(* updateTablesParentAreas: each table gets the id of the area that
   contains it, null when none does *)
updateTablesParentAreas(tbls, ars) ==
    [i \in DOMAIN tbls |->
        LET containing == SelectSeq(ars, LAMBDA a : isTableInsideArea(tbls[i], a))
        IN  [tbls[i] EXCEPT
                !.parentAreaId = IF containing = <<>> THEN Null
                                 ELSE containing[1].id]]

(* data.table of the table nodes that are not hidden *)
visibleTables(nds, tbls) ==
    SelectSeq(tbls, LAMBDA t :
        \E i \in DOMAIN nds :
            nds[i].id = t.id /\ nds[i].type = "table" /\ ~nds[i].hidden)

(* data.area of the area nodes that are not hidden *)
visibleAreas(nds, ars) ==
    SelectSeq(ars, LAMBDA a :
        \E i \in DOMAIN nds :
            nds[i].id = a.id /\ nds[i].type = "area" /\ ~nds[i].hidden)

(* the callback debounce(..., 300) schedules: it reads the node list of the
   render that scheduled it *)
ParentTimer(nds, tbls, ars) ==
    [visibleTables |-> visibleTables(nds, tbls),
     visibleAreas |-> visibleAreas(nds, ars)]

needsUpdate_All(timer) ==
    updateTablesParentAreas(timer.visibleTables, timer.visibleAreas)

(* needsUpdate: id and new parent of the tables whose parent differs *)
needsUpdate(timer) ==
    LET updatedTables == updateTablesParentAreas(timer.visibleTables, timer.visibleAreas)
    IN  SelectSeq(updatedTables, LAMBDA newTable :
            \E i \in DOMAIN timer.visibleTables :
                /\ timer.visibleTables[i].id = newTable.id
                /\ newTable.parentAreaId # timer.visibleTables[i].parentAreaId)

(* the body of the debounced callback *)
checkParentAreas(timer) ==
    LET H1 == Invoked("checkParentAreas", timer)
        updates == needsUpdate(timer)
    IN  IF updates = <<>> THEN H1
        ELSE updateTablesState(H1,
                [i \in DOMAIN H1.tables |->
                    LET update == SelectSeq(updates, LAMBDA u : u.id = H1.tables[i].id)
                    IN  IF update # <<>>
                        THEN [H1.tables[i] EXCEPT !.parentAreaId = update[1].parentAreaId]
                        ELSE H1.tables[i]],
                [updateHistory |-> FALSE])

(* a commit in which the checkParentAreas effect runs for every new node
   list: the one onNodesChange set, whose nodes carry the entities of the
   previous projection, and the one the projection effect set *)
CommitParent(h, pending) ==
    /\ Render(h)
    /\ parentTimers' =
        pending
        \o (IF Some(h.calls, LAMBDA c : c.fn = "onNodesChange")
            THEN <<ParentTimer(h.nodes, tables, areas)>>
            ELSE <<>>)
        \o (IF Some(signals', LAMBDA g : g.effect = "projection" /\ g.changed)
            THEN <<ParentTimer(nodes', tables', areas')>>
            ELSE <<>>)
    /\ Len(parentTimers') <= MaxParentTimers
    /\ UNCHANGED <<overlapGraph, overlapTimers, dragStart>>

NodesChangeParent(changes) ==
    CommitParent(onNodesChangeHandler(changes), parentTimers)

(* the 300 ms of the oldest pending check have passed *)
ParentTimerFires ==
    /\ parentTimers # <<>>
    /\ CommitParent(checkParentAreas(Head(parentTimers)), Tail(parentTimers))

-----------------------------------------------------------------------------
(* Initial states: the component is mounted, the first commit has run *)

(* the state of the Canvas after its first commit *)
InitCanvas(tbls, ars, nts, rels, deps, ro, did, v) ==
    /\ tables = tbls
    /\ areas = ars
    /\ notes = nts
    /\ relationships = rels
    /\ dependencies = deps
    /\ customTypes = <<>>
    /\ readonly = ro
    /\ diagramId = did
    /\ idCounter = 0
    /\ view = v
    /\ nodes = projectNodes(tbls, ars, nts, v, <<>>)
    /\ selectedTableIds = <<>>
    /\ selectedRelationshipIds = <<>>
    /\ signals = <<>>
    /\ edges = regenerateEdges(rels, deps, <<>>, v.showDBViews)
    /\ saveTrigger = 0
    /\ saveTimer = IF did = Null THEN NoTimer
                   ELSE [pending |-> TRUE, absorbed |-> 1,
                         closure |-> [tables |-> tbls, areas |-> ars, notes |-> nts,
                                      relationships |-> rels, dependencies |-> deps,
                                      customTypes |-> <<>>]]
    /\ saveCleanup = (did # Null)
    /\ saveTimeouts = IF did = Null THEN 0 ELSE 1
    /\ inflight = {}
    /\ store = [seq |-> 0]
    /\ lastIssued = [seq |-> 0]
    /\ calls = <<>>
    /\ overlapGraph = findOverlappingTables(tbls)
    /\ overlapTimers = {}
    /\ parentTimers = <<ParentTimer(projectNodes(tbls, ars, nts, v, <<>>), tbls, ars)>>
    /\ dragStart = NoDrag
    /\ mounted = TRUE
    /\ tempFloatingEdge = Null
    /\ rafId = NoFrame
    /\ frames = {}
    /\ cursorPosition = NoPosition

(* the diagram as the API stores it *)
StoredDiagram(tbls, rels) == [tables |-> tbls, relationships |-> rels]

NoResult == [success |-> FALSE, message |-> "none", diagramsCount |-> 0, errors |-> 0]

(* MigrationResult *)
MigrationResult(success, message, diagramsCount, errors) ==
    [success |-> success, message |-> message, diagramsCount |-> diagramsCount,
     errors |-> errors]

(* no run of migrateIndexedDBToAPI is in progress *)
NoMigration == [pc |-> "idle", next |-> 0, errors |-> 0, result |-> NoResult]

(* the application has started: the migration wrapper shows its children,
   no storage operation is in progress *)
AppStarted ==
    /\ serverDiagram = StoredDiagram(<<>>, <<>>)
    /\ storageOps = <<>>
    /\ migrated = TRUE
    /\ indexedDB = [diagrams |-> 0, config |-> FALSE]
    /\ migration = NoMigration
    /\ wrapper = [pc |-> "done", migrationComplete |-> TRUE,
                  migrationError |-> FALSE, timeout |-> FALSE]

InitWithView(tbls, ars, nts, rels, deps, ro, did, v) ==
    InitCanvas(tbls, ars, nts, rels, deps, ro, did, v) /\ AppStarted

InitWith(tbls, ars, nts, rels, deps, ro, did) ==
    InitWithView(tbls, ars, nts, rels, deps, ro, did, DefaultView)

-----------------------------------------------------------------------------
(* Specification of the connect gesture and of edge changes *)

ConnectTables ==
    <<Table("t1", 0, 0, Null, <<Field("f1", "integer")>>),
      Table("t2", 1, 0, Null, <<Field("g1", "integer"), Field("g2", "text")>>)>>

ConnectSourceHandles ==
    {LEFT_HANDLE_ID_PREFIX \o <<f>> : f \in {"f1", "zz"}}
    \cup {TOP_SOURCE_HANDLE_ID_PREFIX \o <<"t1">>,
          BOTTOM_SOURCE_HANDLE_ID_PREFIX \o <<"t1">>,
          <<>>}

ConnectTargetHandles ==
    {TARGET_ID_PREFIX \o <<"0", f>> : f \in {"g1", "g2"}}
    \cup {<<>>}

(* "tX" is the id of a node whose table is gone *)
ConnectParams ==
    [source : {"t1", "tX"}, target : {"t2", "tX"},
     sourceHandle : ConnectSourceHandles, targetHandle : ConnectTargetHandles]

ConnectEdgeChanges ==
    {<<EdgeChange(ty, id, sel)>> :
        ty \in {"remove", "select"}, id \in {generateId(1), generateId(2)},
        sel \in {TRUE}}

InitConnect == InitWith(ConnectTables, <<>>, <<>>, <<>>, <<>>, FALSE, "d1")

NextConnect ==
    \/ \E params \in ConnectParams : Connect(params)
    \/ \E changes \in ConnectEdgeChanges : EdgesChange(changes)

SpecConnect == InitConnect /\ [][NextConnect]_vars

-----------------------------------------------------------------------------
(* Claims about the connect gesture (checked under SpecConnect) *)

CountCalls(cs, fn) == Cardinality({i \in DOMAIN cs : cs[i].fn = fn})

(* the step just taken ran the handler `fn` *)
Ran(fn) == calls' # <<>> /\ calls'[1].fn = fn

(* the input the handler of the step just taken was given *)
Input == calls'[1].arg

(* both endpoints of the connection resolve to a field *)
FieldsResolve(p) ==
    /\ getField(p.source, splitPop(p.sourceHandle)) # NullField
    /\ getField(p.target, splitPop(p.targetHandle)) # NullField

TypesCompatible(p) ==
    areFieldTypesCompatible(getField(p.source, splitPop(p.sourceHandle)).type,
                            getField(p.target, splitPop(p.targetHandle)).type)

NoDomainMutation == UNCHANGED domainVars

(* C7: a connect between two existing fields of incompatible types creates
   no relationship, changes nothing else in the domain model and emits
   exactly one warning. *)
C7_IncompatibleConnectRejected ==
    [][(/\ Ran("onConnectHandler")
        /\ ~isDependencyHandle(Input.sourceHandle)
        /\ FieldsResolve(Input)
        /\ ~TypesCompatible(Input))
       => /\ NoDomainMutation
          /\ CountCalls(calls', "createRelationship") = 0
          /\ CountCalls(calls', "createDependency") = 0
          /\ CountCalls(calls', "toast") = 1]_vars

C7_Witness ==
    /\ calls # <<>>
    /\ calls[1].fn = "onConnectHandler"
    /\ calls[1].arg.source = "t1"
    /\ calls[1].arg.sourceHandle = LEFT_HANDLE_ID_PREFIX \o <<"f1">>
    /\ calls[1].arg.target = "t2"
    /\ calls[1].arg.targetHandle = TARGET_ID_PREFIX \o <<"0", "g2">>
    /\ CountCalls(calls, "toast") = 1
    /\ Len(relationships) = 1

(* C8: every rejected connect attempt, a missing field included, makes no
   domain mutation and emits a warning. *)
C8_EveryRejectionWarns ==
    [][(/\ Ran("onConnectHandler")
        /\ ~isDependencyHandle(Input.sourceHandle)
        /\ (~FieldsResolve(Input) \/ ~TypesCompatible(Input)))
       => /\ NoDomainMutation
          /\ CountCalls(calls', "toast") >= 1]_vars

(* C9: a connect between two existing compatible fields, not from a
   dependency handle, appends exactly one relationship with the
   connection's node ids, the field ids taken from the last segment of the
   handle ids and cardinalities many -> one, and emits no warning. *)
C9_CompatibleConnectCreatesRelationship ==
    [][(/\ Ran("onConnectHandler")
        /\ ~isDependencyHandle(Input.sourceHandle)
        /\ FieldsResolve(Input)
        /\ TypesCompatible(Input))
       => /\ Len(relationships') = Len(relationships) + 1
          /\ SubSeq(relationships', 1, Len(relationships)) = relationships
          /\ LET r == Last(relationships')
             IN  /\ r.sourceTableId = Input.source
                 /\ r.targetTableId = Input.target
                 /\ r.sourceFieldId = Last(Input.sourceHandle)
                 /\ r.targetFieldId = Last(Input.targetHandle)
                 /\ r.sourceCardinality = "many"
                 /\ r.targetCardinality = "one"
                 /\ r.id \notin Ids(relationships) \cup Ids(dependencies)
          /\ UNCHANGED <<tables, areas, notes, dependencies, customTypes>>
          /\ CountCalls(calls', "createRelationship") = 1
          /\ CountCalls(calls', "toast") = 0]_vars

C9_Witness ==
    /\ calls # <<>>
    /\ calls[1].fn = "onConnectHandler"
    /\ CountCalls(calls, "createRelationship") = 1
    /\ Len(relationships) = 2
    /\ relationships[2].sourceTableId = "t1"
    /\ relationships[2].targetTableId = "t2"
    /\ relationships[2].sourceFieldId = "f1"
    /\ relationships[2].targetFieldId = "g1"

(* C10: a connect from a top/bottom dependency source handle appends exactly
   one dependency with tableId = target table and dependentTableId = source
   table, creates no relationship and never consults the type-compatibility
   predicate. *)
C10_DependencyHandleCreatesDependency ==
    [][(Ran("onConnectHandler") /\ isDependencyHandle(Input.sourceHandle))
       => /\ Len(dependencies') = Len(dependencies) + 1
          /\ SubSeq(dependencies', 1, Len(dependencies)) = dependencies
          /\ Last(dependencies').tableId = Input.target
          /\ Last(dependencies').dependentTableId = Input.source
          /\ UNCHANGED <<tables, areas, notes, relationships, customTypes>>
          /\ CountCalls(calls', "createDependency") = 1
          /\ CountCalls(calls', "createRelationship") = 0
          /\ CountCalls(calls', "areFieldTypesCompatible") = 0]_vars

C10_Witness ==
    /\ calls # <<>>
    /\ calls[1].fn = "onConnectHandler"
    /\ calls[1].arg.sourceHandle = BOTTOM_SOURCE_HANDLE_ID_PREFIX \o <<"t1">>
    /\ CountCalls(calls, "createDependency") = 1
    /\ Len(dependencies) = 1
    /\ dependencies[1].tableId = "t2"
    /\ dependencies[1].dependentTableId = "t1"
    /\ Len(relationships) = 1

-----------------------------------------------------------------------------
(* Specification of node and edge change batches, read-only or not *)

ChangesTables ==
    <<Table("t1", 0, 0, "a1", <<Field("f1", "integer")>>),
      Table("t2", 1, 0, Null, <<Field("g1", "integer")>>)>>

ChangesRelationships ==
    <<[id |-> "r1", sourceTableId |-> "t1", sourceFieldId |-> "f1",
       targetTableId |-> "t2", targetFieldId |-> "g1",
       sourceCardinality |-> "many", targetCardinality |-> "one"]>>

ChangesDependencies ==
    <<[id |-> "d1", tableId |-> "t2", dependentTableId |-> "t1"]>>

(* "tX" / "eX": ids with no current node / edge *)
NodeRemoves == {RemoveChange(id) : id \in {"t1", "a1", "n1", "tX"}}

NodeNonRemoves ==
    {PositionChange("t1", 1, 1, FALSE),
     PositionChange("a1", 1, 0, TRUE),
     DimensionsChange("t1", 3, 3, FALSE)}

NodeBatches ==
    {<<c>> : c \in NodeRemoves \cup NodeNonRemoves}
    \cup {<<c, d>> : c \in NodeRemoves, d \in NodeNonRemoves}
    \cup {<<d, c>> : c \in NodeRemoves, d \in NodeNonRemoves}

EdgeRemoves == {EdgeChange("remove", id, FALSE) : id \in {"r1", "d1", "eX"}}

EdgeNonRemoves == {EdgeChange("select", "r1", TRUE)}

EdgeBatches ==
    {<<c>> : c \in EdgeRemoves \cup EdgeNonRemoves}
    \cup {<<c, d>> : c \in EdgeRemoves, d \in EdgeNonRemoves}

InitChanges ==
    \E ro \in BOOLEAN :
        InitWith(ChangesTables, <<Area("a1", 0, 0)>>, <<Note("n1", 0, 1)>>,
                 ChangesRelationships, ChangesDependencies, ro, "d1")

NextChanges ==
    \/ \E changes \in NodeBatches : NodesChange(changes)
    \/ \E changes \in EdgeBatches : EdgesChange(changes)

SpecChanges == InitChanges /\ [][NextChanges]_vars

-----------------------------------------------------------------------------
(* Claims about read-only mode (checked under SpecChanges) *)

NonRemoves(changes) == SelectSeq(changes, LAMBDA c : c.type # "remove")

(* the changes the handler of the step just taken passed on to React Flow *)
Forwarded(fn) ==
    LET i == CHOOSE i \in DOMAIN calls' : calls'[i].fn = fn
    IN  calls'[i].arg

RemovingCalls ==
    {i \in DOMAIN calls' :
        \/ calls'[i].fn \in {"removeRelationships", "removeDependencies",
                             "removeArea", "removeNote"}
        \/ calls'[i].fn = "updateTablesState" /\ calls'[i].arg.kind = "remove"}

(* C6: in read-only mode no remove change of a node or edge batch reaches
   the domain layer or the view: none of the removing domain calls is made,
   no entity, node or edge disappears, and exactly the non-remove changes of
   the batch (followed, for nodes, by the synthetic child changes) are
   passed on. *)
C6_ReadonlyDropsRemoves ==
    [][readonly =>
        /\ Ran("onNodesChangeHandler") =>
            /\ RemovingCalls = {}
            /\ CountCalls(calls', "onNodesChange") = 1
            /\ NonRemoves(Forwarded("onNodesChange")) = Forwarded("onNodesChange")
            /\ SubSeq(Forwarded("onNodesChange"), 1, Len(NonRemoves(Input)))
                    = NonRemoves(Input)
            /\ Ids(tables') = Ids(tables) /\ Ids(areas') = Ids(areas)
            /\ Ids(notes') = Ids(notes) /\ Ids(nodes') = Ids(nodes)
            /\ UNCHANGED <<relationships, dependencies>>
        /\ Ran("onEdgesChangeHandler") =>
            /\ RemovingCalls = {}
            /\ CountCalls(calls', "onEdgesChange") = 1
            /\ Forwarded("onEdgesChange") = NonRemoves(Input)
            /\ Ids(edges') = Ids(edges)
            /\ UNCHANGED domainVars]_vars

(* a read-only batch that mixed a table removal with a drag end: the table
   is still there and the drag end was committed *)
C6_Witness ==
    /\ readonly
    /\ calls # <<>>
    /\ calls[1].fn = "onNodesChangeHandler"
    /\ calls[1].arg = <<RemoveChange("t1"), PositionChange("t1", 1, 1, FALSE)>>
    /\ CountCalls(calls, "updateTablesState") = 1
    /\ "t1" \in Ids(tables) /\ "t1" \in Ids(nodes)
    /\ getNode("t1").x = 1

-----------------------------------------------------------------------------
(* Specification of the persistence scheduler *)

SaveTables == <<Table("t1", 0, 0, Null, <<Field("f1", "integer")>>)>>

SaveNodeBatches ==
    {<<PositionChange("t1", 1, 1, d)>> : d \in BOOLEAN}
    \cup {<<PositionChange("a1", 1, 0, FALSE)>>,
          <<DimensionsChange("t1", 3, 3, FALSE)>>,
          <<RemoveChange("n1")>>}

SaveConnects ==
    {[source |-> "t1", target |-> "t1",
      sourceHandle |-> LEFT_HANDLE_ID_PREFIX \o <<"f1">>,
      targetHandle |-> TARGET_ID_PREFIX \o <<"0", "f1">>],
     [source |-> "t1", target |-> "t1",
      sourceHandle |-> TOP_SOURCE_HANDLE_ID_PREFIX \o <<"t1">>,
      targetHandle |-> TARGET_DEP_PREFIX \o <<"0", "t1">>]}

InitSave ==
    InitWith(SaveTables, <<Area("a1", 0, 0)>>, <<Note("n1", 0, 1)>>,
             <<>>, <<>>, FALSE, "d1")

NextSave ==
    \/ \E changes \in SaveNodeBatches : NodesChange(changes)
    \/ \E params \in SaveConnects : Connect(params)
    \/ CustomTypesChange
    \/ SaveTimeoutFires
    \/ \E w \in inflight : SaveDiagramResolves(w)
    \/ \E w \in inflight : SaveDiagramRejects(w)

SpecSave == InitSave /\ [][NextSave]_vars

-----------------------------------------------------------------------------
(* Claims about the persistence scheduler (checked under SpecSave) *)

(* the domain model before and after the step *)
DomainNow == Closure([tables |-> tables, areas |-> areas, notes |-> notes,
                      relationships |-> relationships,
                      dependencies |-> dependencies, customTypes |-> customTypes])

DomainNext == Closure([tables |-> tables', areas |-> areas', notes |-> notes',
                       relationships |-> relationships',
                       dependencies |-> dependencies',
                       customTypes |-> customTypes'])

(* the step just taken was a handler run that changed the domain model or
   the save trigger *)
QualifyingMutation ==
    /\ \/ Ran("onNodesChangeHandler") \/ Ran("onConnectHandler")
       \/ Ran("onEdgesChangeHandler") \/ Ran("customTypes")
    /\ DomainNext # DomainNow \/ saveTrigger' # saveTrigger

(* the body of the request the timer fire of the step just taken sent *)
Payload == calls'[2].arg.content

(* geometry aside, the entities as the payload carries them *)
SameEntities(sent, kept) ==
    /\ Len(sent) = Len(kept)
    /\ \A i \in DOMAIN sent :
          [sent[i] EXCEPT !.x = 0, !.y = 0, !.width = 0]
            = [kept[i] EXCEPT !.x = 0, !.y = 0, !.width = 0]

SameBoxes(sent, kept) ==
    /\ Len(sent) = Len(kept)
    /\ \A i \in DOMAIN sent :
          [sent[i] EXCEPT !.x = 0, !.y = 0, !.width = 0, !.height = 0]
            = [kept[i] EXCEPT !.x = 0, !.y = 0, !.width = 0, !.height = 0]

(* C1: only a fire of the debounce timer issues a saveDiagram call; the
   mutations made while the timer is pending issue none and leave the single
   timer pending, and the fire issues exactly one call, leaves no timer
   behind, and its payload holds the tables, areas, notes, relationships,
   dependencies and custom types as they are after all those mutations. *)
C1_CoalescedSave ==
    [][/\ ~Ran("saveTimeout") =>
            /\ lastIssued' = lastIssued
            /\ CountCalls(calls', "vertexApi.saveDiagram") = 0
       /\ QualifyingMutation => saveTimer'.pending
       /\ Ran("saveTimeout") =>
            /\ saveTimer.pending /\ ~saveTimer'.pending
            /\ CountCalls(calls', "vertexApi.saveDiagram") = 1
            /\ lastIssued'.seq = lastIssued.seq + 1
            /\ inflight' = inflight \cup {lastIssued'}
            /\ SameEntities(Payload.tables, tables)
            /\ SameBoxes(Payload.areas, areas)
            /\ SameBoxes(Payload.notes, notes)
            /\ Payload.relationships = relationships
            /\ Payload.dependencies = dependencies
            /\ Payload.customTypes = customTypes]_vars

(* the first write was issued by a timer that stood for several runs of the
   effect, and it carries a relationship and a custom type made meanwhile *)
C1_Witness ==
    /\ Len(calls) = 2
    /\ calls[1].fn = "saveTimeout" /\ calls[1].arg = 2
    /\ calls[2].arg.seq = 1
    /\ Len(calls[2].arg.content.relationships) = 1
    /\ Len(calls[2].arg.content.customTypes) = 1
    /\ lastIssued.seq = 1 /\ ~saveTimer.pending

(* C2: the number of the write the store holds never goes down: once a
   later save has been applied, an earlier one is never applied over it,
   also when the earlier one was still in flight when the later was sent. *)
C2_MonotonicWrites == [][store'.seq >= store.seq]_vars

(* C3 as stated: the payload of a save equals the domain model as it is
   when the save is issued. *)
C3_PayloadEqualsDomain ==
    [][Ran("saveTimeout") => Payload = DomainNow]_vars

(* C3: a mutation made while a save is outstanding leaves the requests in
   flight and the store as they are and issues no write; it leaves the timer
   pending over the domain model as it is after the mutation, a pending timer
   always closes over the current domain model, and the fire sends that
   model with the positions and measured sizes of the rendered nodes. *)
C3_NextSaveCapturesMutations ==
    [][/\ QualifyingMutation =>
            /\ UNCHANGED <<inflight, store, lastIssued>>
            /\ CountCalls(calls', "vertexApi.saveDiagram") = 0
            /\ saveTimer'.pending
       /\ saveTimer'.pending => saveTimer'.closure = DomainNext
       /\ Ran("saveTimeout") =>
            /\ UNCHANGED domainVars
            /\ Payload = diagramToSave(DomainNow, nodes)]_vars

(* the second write has just been issued by a timer armed after the first
   fire, while the first write is still in flight, and it carries the custom
   type added meanwhile *)
C3_Witness ==
    /\ Len(calls) = 2
    /\ calls[1].fn = "saveTimeout" /\ calls[1].arg = 1
    /\ calls[2].arg.seq = 2
    /\ [seq |-> 1] \in inflight
    /\ calls[2].arg.content.customTypes = customTypes
    /\ Len(customTypes) = 1

(* C4: a rejected write is caught and logged once; the rejection changes
   neither the domain model nor the view, arms no timer and issues no write,
   so nothing is sent until a mutation runs the save effect again; the next
   qualifying mutation arms the timer over the then-current domain model. *)
C4_FailedWriteIsNonBlocking ==
    [][/\ Ran("saveDiagram.rejected") =>
            /\ UNCHANGED domainVars
            /\ UNCHANGED <<nodes, edges, saveTrigger, store, lastIssued>>
            /\ saveTimer' = saveTimer
            /\ CountCalls(calls', "console.error") = 1
            /\ CountCalls(calls', "vertexApi.saveDiagram") = 0
       /\ Ran("saveTimeout") => saveTimer.pending
       /\ (QualifyingMutation /\ ~saveTimer.pending) =>
            /\ saveTimer'.pending
            /\ saveTimer'.absorbed = 1
            /\ saveTimer'.closure = DomainNext]_vars

(* the only write issued so far was rejected, and a mutation made after the
   rejection has armed the timer again *)
C4_Witness ==
    /\ lastIssued.seq = 1 /\ store.seq = 0 /\ inflight = {}
    /\ calls # <<>> /\ calls[1].fn = "customTypes"
    /\ saveTimer.pending /\ saveTimer.absorbed = 1
    /\ saveTimer.closure.customTypes = customTypes

(* the entity of the payload with this id *)
Sent(entities, id) ==
    LET found == SelectSeq(entities, LAMBDA e : e.id = id)
    IN  found[1]

(* C5: a fire issues exactly one write; in its payload every table, area
   and note that has a rendered node stands at the node's position at fire
   time, with the node's measured size when it has one and the size the
   timer closed over otherwise, and an entity without a node is sent as the
   timer closed over it. *)
C5_PayloadCarriesRenderedGeometry ==
    [][Ran("saveTimeout") =>
        /\ CountCalls(calls', "vertexApi.saveDiagram") = 1
        /\ Ids(Payload.tables) = Ids(saveTimer.closure.tables)
        /\ Ids(Payload.areas) = Ids(saveTimer.closure.areas)
        /\ Ids(Payload.notes) = Ids(saveTimer.closure.notes)
        /\ \A i \in DOMAIN saveTimer.closure.tables :
            LET t == saveTimer.closure.tables[i]
                n == getNode(t.id)
                p == Sent(Payload.tables, t.id)
            IN  IF n = NoNode THEN p = t
                ELSE /\ p.x = n.x /\ p.y = n.y
                     /\ p.width = IF n.mw # 0 THEN n.mw ELSE t.width
        /\ \A kind \in {"areas", "notes"} :
            \A i \in DOMAIN saveTimer.closure[kind] :
                LET b == saveTimer.closure[kind][i]
                    n == getNode(b.id)
                    p == Sent(Payload[kind], b.id)
                IN  IF n = NoNode THEN p = b
                    ELSE /\ p.x = n.x /\ p.y = n.y
                         /\ p.width = IF n.mw # 0 /\ n.mh # 0 THEN n.mw ELSE b.width
                         /\ p.height = IF n.mw # 0 /\ n.mh # 0 THEN n.mh ELSE b.height]_vars

(* a write has just been issued whose table stands where the node was
   dragged to and has the measured width, while the domain model still has
   the table at its old place without a width *)
C5_Witness ==
    /\ Len(calls) = 2
    /\ calls[1].fn = "saveTimeout"
    /\ Sent(calls[2].arg.content.tables, "t1").x = 1
    /\ Sent(calls[2].arg.content.tables, "t1").width = 3
    /\ Sent(tables, "t1").x = 0
    /\ Sent(tables, "t1").width = 0

-----------------------------------------------------------------------------
(* Specification of drag and resize gestures *)

(* React Flow's pointer: the node a drag gesture holds, with the node list as
   it was when the gesture started *)
trackDrag(changes) ==
    LET drags == SelectSeq(changes, LAMBDA c :
                    c.type = "position" /\ c.dragging /\ getNode(c.id) # NoNode)
    IN  IF drags = <<>> THEN NoDrag
        ELSE IF dragStart.id = drags[1].id THEN dragStart
        ELSE [id |-> drags[1].id, nodes |-> nodes]

(* while a node is held, the only changes reported are further moves of
   that node and the drop at the place it is displayed at *)
gestureAllows(changes) ==
    \/ dragStart.id = Null
    \/ /\ Len(changes) = 1
       /\ changes[1].type = "position"
       /\ changes[1].id = dragStart.id
       /\ \/ changes[1].dragging
          \/ /\ changes[1].x = getNode(dragStart.id).x
             /\ changes[1].y = getNode(dragStart.id).y

(* a batch of node changes reported in the course of pointer gestures *)
GestureChange(changes) ==
    /\ gestureAllows(changes)
    /\ Render(onNodesChangeHandler(changes))
    /\ dragStart' = trackDrag(changes)
    /\ UNCHANGED <<overlapGraph, overlapTimers, parentTimers>>

DragTables ==
    <<Table("t1", 0, 0, "a1", <<Field("f1", "integer")>>),
      Table("t2", 3, 0, Null, <<Field("g1", "integer")>>)>>

DragPositions ==
    {<<"a1", 1, 0>>, <<"a1", 2, 1>>, <<"t1", 1, 1>>, <<"t2", 3, 1>>, <<"n1", 1, 3>>}

DragBatches ==
    {<<PositionChange(p[1], p[2], p[3], d)>> : p \in DragPositions, d \in BOOLEAN}
    \cup {<<DimensionsChange("t2", 2, 2, r)>> : r \in BOOLEAN}
    \cup {<<PositionChange("a1", 1, 1, FALSE), DimensionsChange("a1", 1, 1, TRUE)>>,
          <<DimensionsChange("a1", 1, 1, FALSE)>>}

InitDrag ==
    InitWith(DragTables, <<Area("a1", 0, 0)>>, <<Note("n1", 0, 3)>>,
             <<>>, <<>>, FALSE, "d1")

NextDrag == \E changes \in DragBatches : GestureChange(changes)

SpecDrag == InitDrag /\ [][NextDrag]_vars

-----------------------------------------------------------------------------
(* Claims about drag and resize gestures (checked under SpecDrag) *)

(* every change of the batch reports a drag in progress *)
AllDragging(changes) ==
    \A i \in DOMAIN changes : changes[i].type = "position" /\ changes[i].dragging

(* C11: a batch of position changes of nodes being dragged, together with
   the position changes the handler adds for the member tables of a dragged
   area, commits nothing: updateTablesState is not called, the save trigger
   keeps its value and the domain model is unchanged. *)
C11_DragInProgressCommitsNothing ==
    [][(Ran("onNodesChangeHandler") /\ AllDragging(Input)) =>
        /\ CountCalls(calls', "updateTablesState") = 0
        /\ saveTrigger' = saveTrigger
        /\ AllDragging(Forwarded("onNodesChange"))
        /\ UNCHANGED domainVars]_vars

(* an area is being dragged: the member table is displayed away from its
   domain position, moved by a change the handler added *)
C11_Witness ==
    /\ calls # <<>>
    /\ calls[1].fn = "onNodesChangeHandler"
    /\ calls[1].arg = <<PositionChange("a1", 1, 0, TRUE)>>
    /\ dragStart.id = "a1"
    /\ getNode("t1").x = 1
    /\ \E i \in DOMAIN tables : tables[i].id = "t1" /\ tables[i].x = 0
    /\ saveTrigger = 0

-----------------------------------------------------------------------------
(* Specification of sequences of area drag gestures *)

AreaDragTables ==
    <<Table("t1", 0, 0, "a1", <<Field("f1", "integer")>>),
      Table("t2", 3, 0, "a2", <<Field("g1", "integer")>>),
      Table("t3", 0, 3, Null, <<>>)>>

AreaDragPositions ==
    {<<"a1", x, y>> : x \in 0..2, y \in 0..1}
    \cup {<<"a2", x, y>> : x \in 3..4, y \in 0..1}

AreaDragBatches ==
    {<<PositionChange(p[1], p[2], p[3], d)>> : p \in AreaDragPositions, d \in BOOLEAN}

InitAreaDrag ==
    InitWith(AreaDragTables, <<Area("a1", 0, 0), Area("a2", 3, 0)>>, <<>>,
             <<>>, <<>>, FALSE, "d1")

NextAreaDrag ==
    \E changes \in AreaDragBatches :
        /\ dragStart.id # Null \/ changes[1].dragging
        /\ GestureChange(changes)

SpecAreaDrag == InitAreaDrag /\ [][NextAreaDrag]_vars

(* C12: while an area is held, every member table is displayed at the place
   it was displayed at when the drag started, shifted by as much as the area
   is displayed away from where it was when the drag started. *)
C12_MembersFollowDraggedArea ==
    (dragStart.id # Null /\ getNode(dragStart.id).type = "area") =>
        \A i \in DOMAIN tables :
            tables[i].parentAreaId = dragStart.id =>
                LET area == getNode(dragStart.id)
                    area0 == getNodeIn(dragStart.nodes, dragStart.id)
                    member == getNode(tables[i].id)
                    member0 == getNodeIn(dragStart.nodes, tables[i].id)
                IN  /\ member.x = member0.x + (area.x - area0.x)
                    /\ member.y = member0.y + (area.y - area0.y)

(* an area is held for the second time, after a first drag that moved its
   member table, and is displayed away from where this drag started *)
C12_Witness ==
    /\ dragStart.id = "a1"
    /\ getNodeIn(dragStart.nodes, "t1").x # 0
    /\ getNode("a1") # getNodeIn(dragStart.nodes, "a1")
    /\ saveTrigger > 0

-----------------------------------------------------------------------------
(* Claims about drops and resizes (checked under SpecDrag) *)

(* the tables a drop of the node moves: the table itself, or the member
   tables of the area *)
MovedTables(id) ==
    IF getNode(id).type = "table" THEN {id}
    ELSE IF getNode(id).type = "area"
    THEN {tables[i].id : i \in {i \in DOMAIN tables : tables[i].parentAreaId = id}}
    ELSE {}

(* C13: the drop that ends a drag of a table or of an area calls
   updateTablesState exactly once, and after it every moved table (the
   table, or each member table of the area) has as domain position the
   position it was displayed at when dropped, and is displayed there. *)
C13_DropCommitsMovedTablesOnce ==
    [][(/\ Ran("onNodesChangeHandler")
        /\ dragStart.id # Null
        /\ Len(Input) = 1 /\ isSettledPosition(Input[1])
        /\ Input[1].id = dragStart.id
        /\ MovedTables(dragStart.id) # {})
       => /\ CountCalls(calls', "updateTablesState") = 1
          /\ \A id \in MovedTables(dragStart.id) :
                LET dropped == getNode(id)
                    shown == getNodeIn(nodes', id)
                    kept == Sent(tables', id)
                IN  /\ kept.x = dropped.x /\ kept.y = dropped.y
                    /\ shown.x = dropped.x /\ shown.y = dropped.y]_vars

(* an area has just been dropped one step to the right: its member table
   has moved with it in the domain model, in one commit *)
C13_Witness ==
    /\ calls # <<>>
    /\ calls[1].fn = "onNodesChangeHandler"
    /\ calls[1].arg = <<PositionChange("a1", 1, 0, FALSE)>>
    /\ dragStart = NoDrag
    /\ CountCalls(calls, "updateTablesState") = 1
    /\ Sent(tables, "t1").x = 1 /\ Sent(tables, "t1").y = 0
    /\ getNode("t1").x = 1

(* C14: a batch of dimension changes reported while the node is still
   resizing commits nothing (no updateTablesState, save trigger unchanged);
   the dimension change that ends the resize of a table is what commits. *)
C14_ResizeCommitsOnlyAtEnd ==
    [][(/\ Ran("onNodesChangeHandler")
        /\ \A i \in DOMAIN Input : Input[i].type = "dimensions"
        /\ \A i \in DOMAIN Input : getNode(Input[i].id).type = "table")
       => IF \A i \in DOMAIN Input : Input[i].resizing
          THEN /\ CountCalls(calls', "updateTablesState") = 0
               /\ saveTrigger' = saveTrigger
          ELSE /\ CountCalls(calls', "updateTablesState") = 1
               /\ saveTrigger' # saveTrigger]_vars

-----------------------------------------------------------------------------
(* Claims about removals (checked under SpecChanges) *)

(* the ids of the remove changes of the handled batch whose node has the
   given type *)
RemovedOfType(type) ==
    {Input[i].id : i \in {i \in DOMAIN Input :
        /\ Input[i].type = "remove"
        /\ getNode(Input[i].id).type = type}}

OnlyRemoves == \A i \in DOMAIN Input : Input[i].type = "remove"

TableById(tbls, id) == CHOOSE t \in Range(tbls) : t.id = id

CallArgs(fn) == {calls'[i].arg : i \in {i \in DOMAIN calls' : calls'[i].fn = fn}}

(* C15: outside read-only mode, a batch that removes an area keeps every
   table it does not remove, sets parentAreaId to null on exactly the tables
   that were members of a removed area and leaves the other attributes of
   every table as they were, calls removeArea once for the area, which is
   gone afterwards; when the batch removes no table the table update is made
   with updateHistory false. *)
C15_AreaRemovalOrphansMembers ==
    [][(/\ ~readonly
        /\ Ran("onNodesChangeHandler")
        /\ OnlyRemoves
        /\ RemovedOfType("area") # {})
       => /\ Ids(tables') = Ids(tables) \ RemovedOfType("table")
          /\ \A id \in Ids(tables') :
                TableById(tables', id) =
                    IF TableById(tables, id).parentAreaId \in RemovedOfType("area")
                    THEN [TableById(tables, id) EXCEPT !.parentAreaId = Null]
                    ELSE TableById(tables, id)
          /\ \A a \in RemovedOfType("area") :
                /\ Cardinality({i \in DOMAIN calls' :
                        calls'[i] = [fn |-> "removeArea", arg |-> a]}) = 1
                /\ a \notin Ids(areas')
          /\ CountCalls(calls', "updateTablesState") = 1
          /\ \A o \in CallArgs("updateTablesState") :
                o.updateHistory = (RemovedOfType("table") # {})]_vars

(* the area a1 was removed alone: its member t1 is still there without a
   parent, and the table update was kept out of the history *)
C15_Witness ==
    /\ ~readonly
    /\ calls # <<>>
    /\ calls[1] = [fn |-> "onNodesChangeHandler", arg |-> <<RemoveChange("a1")>>]
    /\ "a1" \notin Ids(areas)
    /\ Ids(tables) = {"t1", "t2"}
    /\ TableById(tables, "t1").parentAreaId = Null
    /\ \E i \in DOMAIN calls :
        /\ calls[i].fn = "updateTablesState"
        /\ ~calls[i].arg.updateHistory

(* C16: outside read-only mode, after a batch that removes a table no edge
   has the removed table as its source or target, and no relationship or
   dependency refers to it. *)
C16_TableRemovalRemovesIncidentEdges ==
    [][(/\ ~readonly
        /\ Ran("onNodesChangeHandler")
        /\ RemovedOfType("table") # {})
       => /\ \A e \in Range(edges') :
                e.source \notin RemovedOfType("table")
                /\ e.target \notin RemovedOfType("table")
          /\ \A r \in Range(relationships') :
                r.sourceTableId \notin RemovedOfType("table")
                /\ r.targetTableId \notin RemovedOfType("table")
          /\ \A d \in Range(dependencies') :
                d.tableId \notin RemovedOfType("table")
                /\ d.dependentTableId \notin RemovedOfType("table")]_vars

(* t1 was removed while the relationship r1 and the dependency d1 were
   attached to it: both edges are gone *)
C16_Witness ==
    /\ ~readonly
    /\ calls # <<>>
    /\ calls[1] = [fn |-> "onNodesChangeHandler", arg |-> <<RemoveChange("t1")>>]
    /\ "t1" \notin Ids(tables)
    /\ "t1" \notin Ids(nodes)
    /\ edges = <<>>
    /\ relationships = <<>>
    /\ dependencies = <<>>

(* the ids of the remove changes of the handled edge batch whose current
   edge has the given type *)
RemovedEdgesOfType(type) ==
    {Input[i].id : i \in {i \in DOMAIN Input :
        /\ Input[i].type = "remove"
        /\ getEdge(Input[i].id).type = type}}

(* C17: outside read-only mode, an edge batch removes exactly the
   relationships and dependencies whose edges it removes:
   removeRelationships / removeDependencies are called once with exactly the
   ids of the removed edges of their type, or not at all when there is none
   (in particular for an id that has no current edge); the other
   relationships and dependencies, and all tables, areas and notes, are
   unchanged. *)
C17_EdgeRemovalRemovesExactlyThatEdge ==
    [][(~readonly /\ Ran("onEdgesChangeHandler"))
       => /\ IF RemovedEdgesOfType("relationship-edge") = {}
             THEN CountCalls(calls', "removeRelationships") = 0
             ELSE /\ CountCalls(calls', "removeRelationships") = 1
                  /\ \A ids \in CallArgs("removeRelationships") :
                        /\ Range(ids) = RemovedEdgesOfType("relationship-edge")
                        /\ Len(ids) = Cardinality(Range(ids))
          /\ IF RemovedEdgesOfType("dependency-edge") = {}
             THEN CountCalls(calls', "removeDependencies") = 0
             ELSE /\ CountCalls(calls', "removeDependencies") = 1
                  /\ \A ids \in CallArgs("removeDependencies") :
                        /\ Range(ids) = RemovedEdgesOfType("dependency-edge")
                        /\ Len(ids) = Cardinality(Range(ids))
          /\ relationships' = SelectSeq(relationships, LAMBDA r :
                r.id \notin RemovedEdgesOfType("relationship-edge"))
          /\ dependencies' = SelectSeq(dependencies, LAMBDA d :
                d.id \notin RemovedEdgesOfType("dependency-edge"))
          /\ Ids(edges') = Ids(edges) \ (RemovedEdgesOfType("relationship-edge")
                                         \cup RemovedEdgesOfType("dependency-edge"))
          /\ UNCHANGED <<tables, areas, notes>>]_vars

(* the relationship edge r1 was removed: the relationship is gone, the
   dependency d1 and its edge are still there *)
C17_Witness ==
    /\ ~readonly
    /\ calls # <<>>
    /\ calls[1] = [fn |-> "onEdgesChangeHandler",
                   arg |-> <<EdgeChange("remove", "r1", FALSE)>>]
    /\ CountCalls(calls, "removeRelationships") = 1
    /\ CountCalls(calls, "removeDependencies") = 0
    /\ relationships = <<>>
    /\ Ids(dependencies) = {"d1"}
    /\ Ids(edges) = {"d1"}

-----------------------------------------------------------------------------
(* Overlap graph maintenance: the debounced update after node changes and  *)
(* the consumer of the structural events                                   *)

MaxOverlapTimers == 1

(* nodes.filter((node) => !node.hidden && node.type === 'table') *)
visibleTableNodes(nds) == SelectSeq(nds, LAMBDA n : ~n.hidden /\ n.type = "table")

(* a timeout armed by the overlap maintenance: the debounced graph update
   with the nodes and the graph its callback closed over, or the deferred
   setNodes of update_table *)
OverlapTimer(ids, nds, graph) ==
    [kind |-> "overlap", ids |-> ids, nodes |-> nds, overlapGraph |-> graph,
     width |-> 0]

MeasuredTimer(id, width) ==
    [kind |-> "measured", ids |-> <<id>>, nodes |-> <<>>,
     overlapGraph |-> createGraph, width |-> width]

(* the two loops of updateOverlappingGraphOnChanges: the changed node is
   read when the callback runs, the other nodes and the graph are the
   callback's closure *)
RECURSIVE updateOverlappingGraphOnChanges(_, _, _)
updateOverlappingGraphOnChanges(ids, nds, graph) ==
    IF ids = <<>> THEN graph
    ELSE LET node == getNode(Head(ids))
         IN  updateOverlappingGraphOnChanges(Tail(ids), nds,
                IF node = NoNode \/ node.type # "table"
                THEN graph
                ELSE findTableOverlapping(node, visibleTableNodes(nds), graph))

(* the changes the handler handed to the debounced update *)
scheduledIds(h) ==
    LET i == CHOOSE i \in DOMAIN h.calls :
                h.calls[i].fn = "updateOverlappingGraphOnChangesDebounced"
    IN  SeqMap(LAMBDA c : c.id, h.calls[i].arg.positionChanges)
        \o SeqMap(LAMBDA c : c.id, h.calls[i].arg.sizeChanges)

(* React Flow reports a batch of node changes; the debounced overlap update
   the handler scheduled is armed when the batch carries a settled table
   position or a table resize *)
NodesChangeOverlap(changes) ==
    /\ gestureAllows(changes)
    /\ Render(onNodesChangeHandler(changes))
    /\ dragStart' = trackDrag(changes)
    /\ overlapTimers' =
        IF scheduledIds(onNodesChangeHandler(changes)) # <<>>
        THEN overlapTimers \cup
                {OverlapTimer(scheduledIds(onNodesChangeHandler(changes)),
                              nodes, overlapGraph)}
        ELSE overlapTimers
    /\ Cardinality(overlapTimers') <= MaxOverlapTimers
    /\ UNCHANGED <<overlapGraph, parentTimers>>

(* the debounce delay of an overlap update has passed: the graph is set, and
   the projection effect, which depends on the graph, runs *)
OverlapTimerFires(timer) ==
    /\ timer \in overlapTimers
    /\ timer.kind = "overlap"
    /\ overlapGraph' =
        updateOverlappingGraphOnChanges(timer.ids, timer.nodes, timer.overlapGraph)
    /\ overlapTimers' = overlapTimers \ {timer}
    /\ nodes' = projectNodes(tables, areas, notes, view, nodes)
    /\ calls' = <<[fn |-> "updateOverlappingGraphOnChanges", arg |-> timer.ids]>>
    /\ UNCHANGED <<domainVars, readonly, diagramId, idCounter, edges,
                   saveTrigger, saveTimer, saveCleanup, inflight, store,
                   lastIssued, dragStart, view, selectedTableIds,
                   selectedRelationshipIds, signals, parentTimers,
                   saveTimeouts, mounted, tempFloatingEdge, rafId, frames, cursorPosition, appVars>>

(* the setTimeout(..., 0) of update_table: the node gets the new measured
   width *)
MeasuredTimeoutFires(timer) ==
    /\ timer \in overlapTimers
    /\ timer.kind = "measured"
    /\ nodes' = SeqMap(LAMBDA n : IF n.id = timer.ids[1]
                                  THEN [n EXCEPT !.mw = timer.width]
                                  ELSE n, nodes)
    /\ overlapTimers' = overlapTimers \ {timer}
    /\ calls' = <<[fn |-> "setNodes", arg |-> timer.ids]>>
    /\ UNCHANGED <<domainVars, readonly, diagramId, idCounter, edges,
                   saveTrigger, saveTimer, saveCleanup, inflight, store,
                   lastIssued, dragStart, overlapGraph, view,
                   selectedTableIds, selectedRelationshipIds, signals, parentTimers,
                   saveTimeouts, mounted, tempFloatingEdge, rafId, frames, cursorPosition, appVars>>

(* ChartDBEvent *)
Event(action, tbls, tableIds, id, width, fields) ==
    [action |-> action, tables |-> tbls, tableIds |-> tableIds, id |-> id,
     width |-> width, fields |-> fields]

(* the domain mutation of the provider operation that publishes the event *)
publishedBy(h, event) ==
    IF event.action = "add_tables"
    THEN [h EXCEPT !.tables = @ \o event.tables, !.touched = @ \cup {"tables"}]
    ELSE IF event.action = "remove_tables"
    THEN [h EXCEPT
            !.tables = SelectSeq(@, LAMBDA t :
                            ~Some(event.tableIds, LAMBDA i : i = t.id)),
            !.relationships = SelectSeq(@, LAMBDA r :
                            /\ ~Some(event.tableIds, LAMBDA i : i = r.sourceTableId)
                            /\ ~Some(event.tableIds, LAMBDA i : i = r.targetTableId)),
            !.dependencies = SelectSeq(@, LAMBDA d :
                            /\ ~Some(event.tableIds, LAMBDA i : i = d.tableId)
                            /\ ~Some(event.tableIds, LAMBDA i : i = d.dependentTableId)),
            !.touched = @ \cup {"tables", "relationships", "dependencies"}]
    ELSE IF event.action = "update_table"
    THEN [h EXCEPT
            !.tables = SeqMap(LAMBDA t : IF t.id = event.id
                                         THEN [t EXCEPT !.width =
                                                IF event.width # 0
                                                THEN event.width ELSE @]
                                         ELSE t, @),
            !.touched = @ \cup {"tables"}]
    ELSE IF event.action \in {"add_field", "remove_field"}
    THEN [h EXCEPT
            !.tables = SeqMap(LAMBDA t : IF t.id = event.id
                                         THEN [t EXCEPT !.fields = event.fields]
                                         ELSE t, @),
            !.touched = @ \cup {"tables"}]
    ELSE [h EXCEPT !.touched = @ \cup {"tables", "areas", "notes"}]

(* the loop of add_tables: every pass starts from overlapGraph again *)
RECURSIVE addTablesLoop(_, _, _, _)
addTablesLoop(tbls, nds, graph, newOverlappingGraph) ==
    IF tbls = <<>> THEN newOverlappingGraph
    ELSE addTablesLoop(Tail(tbls), nds, graph,
            findTableOverlapping(getNodeIn(nds, Head(tbls).id),
                                 visibleTableNodes(nds), graph))

(* the loop of remove_tables *)
RECURSIVE removeTablesLoop(_, _)
removeTablesLoop(tableIds, newOverlappingGraph) ==
    IF tableIds = <<>> THEN newOverlappingGraph
    ELSE removeTablesLoop(Tail(tableIds),
                          removeVertex(newOverlappingGraph, Head(tableIds)))

(* eventConsumer: the graph it sets; nds and dgm are the nodes and the
   tables of the diagram it sees *)
eventConsumer(event, nds, dgm, graph) ==
    IF event.action = "add_tables"
    THEN addTablesLoop(event.tables, nds, graph, graph)
    ELSE IF event.action = "remove_tables"
    THEN removeTablesLoop(event.tableIds, graph)
    ELSE IF event.action = "update_table" /\ event.width # 0
    THEN findTableOverlapping(
            [getNodeIn(nds, event.id) EXCEPT !.mw = event.width],
            visibleTableNodes(nds), graph)
    ELSE IF event.action \in {"add_field", "remove_field"}
    THEN findTableOverlapping(
            [getNodeIn(nds, event.id) EXCEPT !.mh = calcTableHeight(event.fields)],
            visibleTableNodes(nds), graph)
    ELSE IF event.action = "load_diagram"
    THEN findOverlappingTables(dgm)
    ELSE graph

(* the event refers to the diagram as it is *)
eventAllowed(event) ==
    IF event.action = "add_tables"
    THEN Ids(event.tables) \cap Ids(tables) = {}
    ELSE IF event.action = "remove_tables"
    THEN Range(event.tableIds) \subseteq Ids(tables)
    ELSE IF event.action = "load_diagram"
    THEN TRUE
    ELSE event.id \in Ids(tables)

(* a provider operation changes the diagram and publishes its event; the
   consumer runs on the commit that shows the change *)
EventPublished(event) ==
    /\ eventAllowed(event)
    /\ dragStart.id = Null
    /\ Render(publishedBy(Invoked("eventConsumer", event), event))
    /\ overlapGraph' = eventConsumer(event, nodes', tables', overlapGraph)
    /\ overlapTimers' =
        IF event.action = "update_table" /\ event.width # 0
        THEN overlapTimers \cup {MeasuredTimer(event.id, event.width)}
        ELSE overlapTimers
    /\ Cardinality(overlapTimers') <= MaxOverlapTimers
    /\ UNCHANGED <<dragStart, parentTimers>>

-----------------------------------------------------------------------------
(* Specification of the overlap graph maintenance *)

OverlapTables ==
    <<Table("t1", 0, 0, "a1", <<Field("f1", "integer")>>),
      Table("t2", 1, 0, Null, <<Field("g1", "integer")>>)>>

(* t3 lies on t1; t4 lies below t1 and touches nothing *)
OverlapAddedTables ==
    <<Table("t3", 0, 0, Null, <<Field("h1", "integer")>>),
      Table("t4", 0, 1, Null, <<Field("k1", "integer")>>)>>

OverlapBatches ==
    {<<PositionChange("a1", 1, 0, d)>> : d \in BOOLEAN}
    \cup {<<PositionChange("t2", 0, 0, d)>> : d \in BOOLEAN}
    \cup {<<DimensionsChange("t1", 2, 1, TRUE)>>, <<RemoveChange("t2")>>}

OverlapEvents ==
    {Event("add_tables", SubSeq(OverlapAddedTables, 1, k), <<>>, Null, 0, <<>>) :
        k \in 1..2}
    \cup {Event("remove_tables", <<>>, ids, Null, 0, <<>>) :
            ids \in {<<"t3", "t4">>}}
    \cup {Event("update_table", <<>>, <<>>, "t1", w, <<>>) : w \in {0, 2}}
    \cup {Event("add_field", <<>>, <<>>, "t1", 0,
                <<Field("f1", "integer"), Field("f2", "integer")>>),
          Event("load_diagram", <<>>, <<>>, Null, 0, <<>>)}

InitOverlap ==
    InitWith(OverlapTables, <<Area("a1", 0, 0)>>, <<>>, <<>>, <<>>, FALSE, "d1")

NextOverlap ==
    \/ \E changes \in OverlapBatches : NodesChangeOverlap(changes)
    \/ \E timer \in overlapTimers : OverlapTimerFires(timer)
    \/ \E timer \in overlapTimers : MeasuredTimeoutFires(timer)
    \/ \E event \in OverlapEvents : EventPublished(event)

SpecOverlap == InitOverlap /\ [][NextOverlap]_vars

-----------------------------------------------------------------------------
(* Claims about the overlap graph (checked under SpecOverlap) *)

(* the adjacency set of a table in the graph; a missing vertex has none *)
overlapsOf(graph, id) == IF id \in DOMAIN graph THEN graph[id] ELSE {}

(* no gesture is in progress and no timeout of the overlap maintenance is
   pending *)
Settled == dragStart.id = Null /\ overlapTimers = {}

(* C18: in every settled state, for all pairs of visible tables A and B, A
   is in B's adjacency set and B is in A's iff their displayed boxes
   intersect. *)
C18_OverlapGraphMatchesBoxes ==
    Settled =>
        \A a, b \in Ids(visibleTableNodes(nodes)) :
            a # b =>
                /\ (b \in overlapsOf(overlapGraph, a))
                        <=> intersects(nodeBox(getNode(a)), nodeBox(getNode(b)))
                /\ (b \in overlapsOf(overlapGraph, a))
                        <=> (a \in overlapsOf(overlapGraph, b))

(* the tables that left the diagram in the step just taken *)
RemovedTables == Ids(tables) \ Ids(tables')

(* C19: after a step that removes a table, by a remove_tables event or by a
   remove change handled by onNodesChangeHandler, the removed table is no
   vertex of the overlap graph and is in no adjacency set. *)
C19_RemovedTableLeavesOverlapGraph ==
    [][(/\ Ran("eventConsumer") \/ Ran("onNodesChangeHandler")
        /\ RemovedTables # {})
       => /\ DOMAIN overlapGraph' \cap RemovedTables = {}
          /\ \A v \in DOMAIN overlapGraph' :
                overlapGraph'[v] \cap RemovedTables = {}]_vars

(* C20: after an add_tables event is consumed, every added table that
   intersects another visible table has that table in its adjacency set,
   and is itself in the adjacency set of that table. *)
C20_AddTablesCoversEveryAddedTable ==
    [][(Ran("eventConsumer") /\ Input.action = "add_tables")
       => \A a \in Ids(Input.tables) :
            \A o \in Ids(visibleTableNodes(nodes')) \ {a} :
                intersects(nodeBox(getNodeIn(nodes', a)),
                           nodeBox(getNodeIn(nodes', o)))
                => /\ o \in overlapsOf(overlapGraph', a)
                   /\ a \in overlapsOf(overlapGraph', o)]_vars

-----------------------------------------------------------------------------
(* Specification of the node projection under filter and view options *)

ProjectTables ==
    <<Table("t1", 0, 0, "a1", <<Field("f1", "integer")>>),
      ViewTable("t2", 1, 0, "a1", <<Field("g1", "integer")>>),
      Table("t3", 0, 2, Null, <<Field("h1", "integer")>>)>>

(* a1 has the members t1 and t2, a2 has none *)
ProjectAreas == <<Area("a1", 0, 0), Area("a2", 3, 0)>>

ProjectViews ==
    {View(filter, filterLoading, showDBViews, newTables) :
        filter \in SUBSET {"t1", "t2", "t3"},
        filterLoading \in BOOLEAN,
        showDBViews \in BOOLEAN,
        newTables \in SUBSET {"t2", "t3"}}

ProjectBatches ==
    {<<SelectChange("t1", sel)>> : sel \in BOOLEAN}
    \cup {<<PositionChange("t3", 1, 2, TRUE)>>}

(* the filter context, the local configuration or the diff context hands
   the component new view options: the projection effect runs *)
ViewChanges(v) ==
    Commit([Invoked("viewChanged", v) EXCEPT
              !.view = v,
              !.touched = {"view"} \cup (IF v.showDBViews # view.showDBViews
                                         THEN {"showDBViews"} ELSE {})])

InitProject ==
    InitWith(ProjectTables, ProjectAreas, <<Note("n1", 0, 4)>>,
             <<>>, <<>>, FALSE, "d1")

NextProject ==
    \/ \E v \in ProjectViews : ViewChanges(v)
    \/ \E changes \in ProjectBatches : NodesChange(changes)

SpecProject == InitProject /\ [][NextProject]_vars

-----------------------------------------------------------------------------
(* Claims about the node projection (checked under SpecProject) *)

(* C21: the node of every table is hidden iff the table is not forced
   visible and it fails the filter predicate, or the filter is loading, or
   it is a view while views are not shown. *)
C21_TableNodeHidden ==
    \A i \in DOMAIN tables :
        getNode(tables[i].id).hidden
            <=> /\ tables[i].id \notin view.newTables
                /\ \/ tables[i].id \in view.filter
                   \/ view.filterLoading
                   \/ (tables[i].isView /\ ~view.showDBViews)

(* t3 fails the filter and is shown because it is new; the view t2 passes
   the filter and is hidden because views are not shown *)
C21_Witness ==
    /\ calls # <<>>
    /\ calls[1].fn = "viewChanged"
    /\ view = View({"t3"}, FALSE, FALSE, {"t3"})
    /\ ~getNode("t3").hidden
    /\ getNode("t2").hidden
    /\ ~getNode("t1").hidden

(* the member tables of an area *)
MembersOf(areaId) == {t \in Range(tables) : t.parentAreaId = areaId}

(* C22: the node of an area is hidden iff the filter is loading, or the
   area has member tables and none of them passes the filter predicate; an
   area without member tables is shown whenever the filter is not loading. *)
C22_AreaNodeHidden ==
    \A i \in DOMAIN areas :
        getNode(areas[i].id).hidden
            <=> \/ view.filterLoading
                \/ /\ MembersOf(areas[i].id) # {}
                   /\ \A t \in MembersOf(areas[i].id) : t.id \in view.filter

(* C22 as stated: an area without member tables is shown in every filter
   state, the loading state included *)
C22_EmptyAreaAlwaysShown ==
    \A i \in DOMAIN areas :
        MembersOf(areas[i].id) = {} => ~getNode(areas[i].id).hidden

(* the filter excludes every table: a1, whose members all fail it, is
   hidden, and the empty area a2 is shown *)
C22_Witness ==
    /\ calls # <<>>
    /\ calls[1].fn = "viewChanged"
    /\ view.filter = {"t1", "t2", "t3"}
    /\ ~view.filterLoading
    /\ getNode("a1").hidden
    /\ ~getNode("a2").hidden

(* the node list that the tables, areas, notes and view options of the next
   state project to *)
ProjectionOfNext ==
    [i \in DOMAIN tables' |-> tableToTableNode(tables'[i], view')]
    \o [i \in DOMAIN areas' |-> areaToAreaNode(areas'[i], tables', view')]
    \o [i \in DOMAIN notes' |-> noteToNoteNode(notes'[i])]

ProjectionRan == \E i \in DOMAIN signals' : signals'[i].effect = "projection"

(* C23: whenever the projection effect runs, the node list is the one the
   tables, areas, notes and view options determine, whatever the previous
   node list was; and when new view options project to the node list that
   is already there, no change of the node list is signalled. *)
C23_ProjectionDeterministicAndShared ==
    [][ProjectionRan =>
        /\ nodes' = ProjectionOfNext
        /\ Ran("viewChanged") =>
            \A i \in DOMAIN signals' :
                signals'[i].effect = "projection"
                    => (signals'[i].changed <=> ProjectionOfNext # nodes)]_vars

(* the same view options arrived again while the nodes were as projected:
   the projection ran and signalled no change *)
C23_Witness ==
    /\ calls # <<>>
    /\ calls[1] = [fn |-> "viewChanged", arg |-> view]
    /\ signals = <<Signal("projection", FALSE, {})>>
    /\ view.filter = {"t1"}
    /\ getNode("t1").hidden


-----------------------------------------------------------------------------
(* Edges, selection and highlight: relationships and dependencies are     *)
(* created and removed while tables and edges are selected and the view   *)
(* options change.                                                       *)

HighlightTables ==
    <<Table("t1", 0, 0, Null, <<Field("f1", "integer")>>),
      Table("t2", 3, 0, Null, <<Field("g1", "integer")>>),
      Table("t3", 0, 3, Null, <<Field("h1", "integer")>>)>>

(* r1 and r2 share the target pair (t2, g1) *)
HighlightRelationships ==
    <<[id |-> "r1", sourceTableId |-> "t1", sourceFieldId |-> "f1",
       targetTableId |-> "t2", targetFieldId |-> "g1",
       sourceCardinality |-> "many", targetCardinality |-> "one"],
      [id |-> "r2", sourceTableId |-> "t3", sourceFieldId |-> "h1",
       targetTableId |-> "t2", targetFieldId |-> "g1",
       sourceCardinality |-> "many", targetCardinality |-> "one"]>>

HighlightDependencies ==
    <<[id |-> "d1", tableId |-> "t2", dependentTableId |-> "t3"]>>

HighlightConnects ==
    {[source |-> "t1", target |-> "t2",
      sourceHandle |-> LEFT_HANDLE_ID_PREFIX \o <<"f1">>,
      targetHandle |-> TARGET_ID_PREFIX \o <<"0", "g1">>],
     [source |-> "t1", target |-> "t3",
      sourceHandle |-> LEFT_HANDLE_ID_PREFIX \o <<"f1">>,
      targetHandle |-> TARGET_ID_PREFIX \o <<"0", "h1">>],
     [source |-> "t1", target |-> "t3",
      sourceHandle |-> TOP_SOURCE_HANDLE_ID_PREFIX \o <<"t1">>,
      targetHandle |-> <<>>]}

HighlightNodeBatches ==
    {<<SelectChange(id, sel)>> : id \in {"t1", "t3"}, sel \in BOOLEAN}

HighlightEdgeBatches ==
    {<<EdgeChange("select", "r1", sel)>> : sel \in BOOLEAN}
    \cup {<<EdgeChange("remove", id, FALSE)>> : id \in {"r1", "r2", "d1"}}

HighlightViews ==
    {View({}, FALSE, showDBViews, {}) : showDBViews \in BOOLEAN}

InitHighlight ==
    InitWith(HighlightTables, <<>>, <<>>, HighlightRelationships,
             HighlightDependencies, FALSE, "d1")

NextHighlight ==
    \/ \E params \in HighlightConnects : Connect(params)
    \/ \E changes \in HighlightNodeBatches : NodesChange(changes)
    \/ \E changes \in HighlightEdgeBatches : EdgesChange(changes)
    \/ \E v \in HighlightViews : ViewChanges(v)

SpecHighlight == InitHighlight /\ [][NextHighlight]_vars

(* the highlight effect ran in the commit of this step *)
HighlightRan == \E i \in DOMAIN signals' : signals'[i].effect = "highlight"

(* the ids of a list, in list order *)
IdSeq(s) == [i \in DOMAIN s |-> s[i].id]

(* the previous edge with this id, NoEdge if there was none *)
PrevEdge(id) == getEdge(id)

(* C24: when the relationship or dependency list changes, the edge list is
   regenerated with one edge per relationship and per dependency, ids equal
   to the entity ids, relationships first, each in list order; an edge whose
   id existed before keeps its selected and animated flags, an edge with a
   new id has selected = FALSE and animated = FALSE (animated is compared in
   the commits where the highlight effect did not run afterwards) *)
C24_RegenerationFrame ==
    [][(/\ \/ Ran("onConnectHandler")
           \/ Ran("onEdgesChangeHandler") /\ OnlyRemoves
        /\ \/ relationships' # relationships
           \/ dependencies' # dependencies)
       => /\ IdSeq(edges') = IdSeq(relationships') \o IdSeq(dependencies')
          /\ \A i \in DOMAIN edges' :
                LET e == edges'[i]
                    p == PrevEdge(e.id)
                IN  /\ e.selected = (IF p = NoEdge THEN FALSE ELSE p.selected)
                    /\ ~HighlightRan =>
                          e.animated = (IF p = NoEdge THEN FALSE ELSE p.animated)]_vars

C24_Witness ==
    /\ calls # <<>> /\ calls[1].fn = "onConnectHandler"
    /\ IdSeq(edges) = <<"r1", "r2", generateId(1), "d1">>
    /\ edges[1].selected /\ edges[1].animated
    /\ ~edges[2].selected /\ ~edges[2].animated
    /\ ~edges[3].selected /\ ~edges[3].animated


(* the selected-id state the highlight effect reads *)
InSelection(edge) ==
    \/ edge.id \in Range(selectedRelationshipIds)
    \/ edge.source \in Range(selectedTableIds)
    \/ edge.target \in Range(selectedTableIds)

(* C25: in every settled state an edge is highlighted iff its id is among
   the selected edge ids or its source or target table is among the selected
   node ids, also for an edge created or regenerated while an endpoint table
   is selected *)
C25_HighlightPropagation ==
    \A i \in DOMAIN edges : edges[i].highlighted <=> InSelection(edges[i])

(* C26: in every settled state a highlighted edge is animated with z-index
   1, and an edge that is not highlighted is not animated and has z-index 0,
   also right after the edge list was regenerated *)
C26_HighlightAttributesAgree ==
    \A i \in DOMAIN edges :
        /\ edges[i].animated = edges[i].highlighted
        /\ edges[i].zIndex = (IF edges[i].highlighted THEN 1 ELSE 0)


(* the signal of the highlight effect in the commit of this step *)
HighlightSignal ==
    signals'[CHOOSE i \in DOMAIN signals' : signals'[i].effect = "highlight"]

(* the highlight attributes the selection of the next state asks of an edge *)
ShouldNext(edge) ==
    \/ edge.id \in Range(selectedRelationshipIds')
    \/ edge.source \in Range(selectedTableIds')
    \/ edge.target \in Range(selectedTableIds')

(* some highlight attribute of the edge differs from what is asked *)
Differs(edge) ==
    \/ edge.highlighted # ShouldNext(edge)
    \/ edge.animated # ShouldNext(edge)
    \/ edge.zIndex # (IF ShouldNext(edge) THEN 1 ELSE 0)

(* the highlight effect ran on the edge list of the previous state: the
   commit regenerated no edge *)
HighlightOnly ==
    /\ HighlightRan
    /\ relationships' = relationships
    /\ dependencies' = dependencies
    /\ view' = view

(* C27: the highlight recomputation returns the previous edge array when no
   edge's computed highlighted / animated / z-index differs from its current
   values; when some differ, exactly those edges are new objects and every
   other edge is carried over as it was *)
C27_HighlightStructuralSharing ==
    [][HighlightOnly
       => /\ HighlightSignal.changed <=> \E i \in DOMAIN edges : Differs(edges[i])
          /\ HighlightSignal.rebuilt
                = {edges[i].id : i \in {i \in DOMAIN edges : Differs(edges[i])}}
          /\ \A i \in DOMAIN edges :
                ~Differs(edges[i])
                    => /\ edges'[i].highlighted = edges[i].highlighted
                       /\ edges'[i].animated = edges[i].animated
                       /\ edges'[i].zIndex = edges[i].zIndex]_vars

C27_Witness ==
    /\ calls # <<>> /\ calls[1].fn = "onNodesChangeHandler"
    /\ signals = <<Signal("highlight", FALSE, {})>>
    /\ selectedTableIds = <<"t1">>
    /\ IdSeq(edges) = <<"r2", "d1">>


(* the step is the selection or deselection of one table *)
TableSelection ==
    /\ Ran("onNodesChangeHandler")
    /\ Len(Input) = 1
    /\ Input[1].type = "select"
    /\ getNode(Input[1].id).selected # Input[1].selected

Incident(edge, tableId) == edge.source = tableId \/ edge.target = tableId

(* the edge is a new object after the step *)
Replaced(i) ==
    \/ edges'[i] # edges[i]
    \/ HighlightRan /\ edges[i].id \in HighlightSignal.rebuilt

(* C28: selecting a table highlights (animated, z-index 1) the edges that
   have it as source or target, deselecting it reverts those of them that no
   other selection holds to not highlighted, not animated, z-index 0, and an
   edge that is not incident to the table is never replaced *)
C28_TableSelectionHighlightsIncident ==
    [][TableSelection
       => \A i \in DOMAIN edges :
            IF Incident(edges[i], Input[1].id)
            THEN IF Input[1].selected
                 THEN /\ edges'[i].highlighted
                      /\ edges'[i].animated
                      /\ edges'[i].zIndex = 1
                 ELSE ~ShouldNext(edges[i])
                        => /\ ~edges'[i].highlighted
                           /\ ~edges'[i].animated
                           /\ edges'[i].zIndex = 0
            ELSE ~Replaced(i)]_vars

(* the same property, from the states in which the highlight attributes
   agree with the selection *)
C28_FromAgreeingStates ==
    [][(/\ TableSelection
        /\ C25_HighlightPropagation
        /\ C26_HighlightAttributesAgree)
       => \A i \in DOMAIN edges :
            IF Incident(edges[i], Input[1].id)
            THEN IF Input[1].selected
                 THEN /\ edges'[i].highlighted
                      /\ edges'[i].animated
                      /\ edges'[i].zIndex = 1
                 ELSE ~ShouldNext(edges[i])
                        => /\ ~edges'[i].highlighted
                           /\ ~edges'[i].animated
                           /\ edges'[i].zIndex = 0
            ELSE ~Replaced(i)]_vars


(* the index written in an edge's target handle *)
HandleIndex(edge) == edge.targetHandle[Len(TARGET_ID_PREFIX) + 1]

(* the position of a relationship among those of the list that share its
   (targetTableId, targetFieldId) pair, counted from 1 *)
RankInPair(rels, i) ==
    Cardinality({j \in 1..i :
        /\ rels[j].targetTableId = rels[i].targetTableId
        /\ rels[j].targetFieldId = rels[i].targetFieldId})

(* C29: among the relationships sharing one (targetTableId, targetFieldId)
   pair, the k-th in list order has target-handle index k - 1, whatever the
   relationships of other pairs are; the indices of a pair are 0, 1, 2, ...
   without gap or repeat *)
C29_TargetHandleIndices ==
    \A i \in DOMAIN relationships :
        /\ edges[i].id = relationships[i].id
        /\ HandleIndex(edges[i]) = ToString(RankInPair(relationships, i) - 1)

C29_Witness ==
    /\ calls # <<>> /\ calls[1].fn = "onEdgesChangeHandler"
    /\ IdSeq(relationships) = <<"r2", generateId(1), generateId(2)>>
    /\ relationships[2].targetTableId = "t3"
    /\ relationships[3].targetTableId = "t2"
    /\ HandleIndex(edges[1]) = "0"
    /\ HandleIndex(edges[2]) = "0"
    /\ HandleIndex(edges[3]) = "1"


-----------------------------------------------------------------------------
(* Parent-area reassignment: tables are dropped inside and outside areas   *)
(* while the filter changes, and the debounced checks fire.                *)

ParentTables ==
    <<Table("t1", 0, 0, "a1", <<Field("f1", "integer")>>),
      Table("t2", 3, 3, Null, <<Field("g1", "integer")>>)>>

ParentAreas == <<Area("a1", 0, 0), Area("a2", 4, 0)>>

(* a drag moves the node, the drop that ends it leaves it where it is *)
ParentBatches ==
    {<<PositionChange("t2", 1, 1, dragging)>> : dragging \in BOOLEAN}
    \cup {<<PositionChange("t2", 4, 0, dragging)>> : dragging \in BOOLEAN}
    \cup {<<PositionChange("t1", 3, 3, dragging)>> : dragging \in BOOLEAN}

ParentViews == {View(filter, FALSE, TRUE, {}) : filter \in {{}, {"t1"}}}

ViewChangesParent(v) ==
    CommitParent([Invoked("viewChanged", v) EXCEPT
                    !.view = v,
                    !.touched = {"view"} \cup (IF v.showDBViews # view.showDBViews
                                               THEN {"showDBViews"} ELSE {})],
                 parentTimers)

InitParent ==
    InitWithView(ParentTables, ParentAreas, <<>>, <<>>, <<>>, FALSE, "d1", DefaultView)

NextParent ==
    \/ \E changes \in ParentBatches : NodesChangeParent(changes)
    \/ \E v \in ParentViews : ViewChangesParent(v)
    \/ ParentTimerFires

SpecParent == InitParent /\ [][NextParent]_vars

(* the areas whose bounds fully contain the table's bounds *)
AreasAround(table) == {a \in Range(areas) : isTableInsideArea(table, a)}

(* C30: once the parent-area check has run (no check is pending), every
   table whose bounds lie fully inside an area X has parentAreaId = X.id, and
   every table whose bounds lie fully inside no area has parentAreaId = null *)
C30_ParentAreaMatchesBounds ==
    parentTimers = <<>>
        => \A t \in Range(tables) :
             /\ \A a \in AreasAround(t) : t.parentAreaId = a.id
             /\ AreasAround(t) = {} => t.parentAreaId = Null

(* the same property for the tables and areas whose nodes are not hidden *)
C30_AmongVisibleNodes ==
    parentTimers = <<>>
        => \A t \in Range(visibleTables(nodes, tables)) :
             LET around == AreasAround(t) \cap Range(visibleAreas(nodes, areas))
             IN  /\ \A a \in around : t.parentAreaId = a.id
                 /\ around = {} => t.parentAreaId = Null


(* the parents the check of this step resolves from the node list it read *)
ResolvedByCheck == updateTablesParentAreas(Input.visibleTables, Input.visibleAreas)

(* id -> new parent of the tables whose resolved parent differs from the
   parent they had in the node list the check read *)
ChangedByCheck ==
    {<<ResolvedByCheck[i].id, ResolvedByCheck[i].parentAreaId>> :
        i \in {i \in DOMAIN ResolvedByCheck :
                 ResolvedByCheck[i].parentAreaId # Input.visibleTables[i].parentAreaId}}

(* C31: the parent-area check changes parentAreaId of exactly the tables
   whose resolved parent differs and no other attribute, table or entity; it
   issues that update with history recording off, and issues no domain update
   at all when no resolved parent differs *)
C31_ParentCheckFrame ==
    [][Ran("checkParentAreas")
       => /\ IdSeq(tables') = IdSeq(tables)
          /\ \A i \in DOMAIN tables :
                IF \E c \in ChangedByCheck : c[1] = tables[i].id
                THEN \E c \in ChangedByCheck :
                        /\ c[1] = tables[i].id
                        /\ tables'[i] = [tables[i] EXCEPT !.parentAreaId = c[2]]
                ELSE tables'[i] = tables[i]
          /\ UNCHANGED <<areas, notes, relationships, dependencies, customTypes>>
          /\ IF ChangedByCheck = {}
             THEN Len(calls') = 1
             ELSE /\ CountCalls(calls', "updateTablesState") = 1
                  /\ CallArgs("updateTablesState") = {[updateHistory |-> FALSE]}]_vars

(* t2 was dropped inside a1 and the check gave it the parent a1 *)
C31_Witness ==
    /\ calls # <<>> /\ calls[1].fn = "checkParentAreas"
    /\ CountCalls(calls, "updateTablesState") = 1
    /\ tables[2].parentAreaId = "a1"
    /\ tables[1].parentAreaId = "a1"


-----------------------------------------------------------------------------
(* The floating-edge gesture, the frame callback, and unmounting           *)

MaxFrames == 2

(* everything but the gesture state and the call log stays as it is *)
CanvasUnchanged ==
    UNCHANGED <<domainVars, readonly, diagramId, idCounter, nodes, edges,
                saveTrigger, saveTimer, saveCleanup, saveTimeouts, inflight, store,
                lastIssued, overlapGraph, overlapTimers, dragStart, parentTimers,
                view, selectedTableIds, selectedRelationshipIds, signals, mounted, appVars>>

Position(x, y) == [set |-> TRUE, x |-> x, y |-> y]

(* useCanvas().startFloatingEdgeCreation *)
StartFloatingEdge(sourceNodeId) ==
    /\ mounted
    /\ tempFloatingEdge = Null
    /\ tempFloatingEdge' = sourceNodeId
    /\ calls' = <<[fn |-> "startFloatingEdgeCreation", arg |-> sourceNodeId]>>
    /\ UNCHANGED <<rafId, frames, cursorPosition>>
    /\ CanvasUnchanged

throttled_Never(id) == FALSE

(* if (rafIdRef.current) return *)
throttled(id) == id # NoFrame

(* requestAnimationFrame: the id of the callback it registers *)
requestAnimationFrame(pending) ==
    CHOOSE id \in 1..(Cardinality(pending) + 1) : \A f \in pending : f.id # id

handleMouseMove(position) ==
    /\ mounted
    /\ calls' = <<[fn |-> "handleMouseMove", arg |-> position]>>
    /\ IF tempFloatingEdge # Null /\ ~throttled(rafId)
       THEN /\ rafId' = requestAnimationFrame(frames)
            /\ frames' = frames \cup {[id |-> rafId', position |-> position]}
            /\ Cardinality(frames') <= MaxFrames
       ELSE UNCHANGED <<rafId, frames>>
    /\ UNCHANGED <<tempFloatingEdge, cursorPosition>>
    /\ CanvasUnchanged

(* the browser runs a frame callback: setCursorPosition(position), and the
   ref is reset *)
FrameFires(frame) ==
    /\ frame \in frames
    /\ frames' = frames \ {frame}
    /\ cursorPosition' = frame.position
    /\ rafId' = NoFrame
    /\ calls' = <<[fn |-> "frameCallback", arg |-> frame.position]>>
    /\ UNCHANGED tempFloatingEdge
    /\ CanvasUnchanged

(* what onPaneClickHandler and handleEscape do to the gesture *)
endGesture(fn) ==
    /\ mounted
    /\ IF tempFloatingEdge # Null
       THEN /\ tempFloatingEdge' = Null
            /\ cursorPosition' = NoPosition
            /\ calls' = <<[fn |-> fn, arg |-> Null],
                          [fn |-> "endFloatingEdgeCreation", arg |-> Null]>>
       ELSE /\ UNCHANGED <<tempFloatingEdge, cursorPosition>>
            /\ calls' = <<[fn |-> fn, arg |-> Null]>>
    /\ UNCHANGED <<rafId, frames>>
    /\ CanvasUnchanged

onPaneClickHandler == endGesture("onPaneClickHandler")

handleEscape == endGesture("handleEscape")

(* the component unmounts: the cleanups of its effects run, those of the
   save effect and of the frame effect being the only ones that cancel
   something *)
Unmount ==
    /\ mounted
    /\ mounted' = FALSE
    /\ saveTimer' = IF saveCleanup THEN NoTimer ELSE saveTimer
    /\ saveTimeouts' = IF saveCleanup THEN clearTimeout(saveTimer, saveTimeouts)
                                      ELSE saveTimeouts
    /\ frames' = {f \in frames : f.id # rafId}
    /\ calls' = <<[fn |-> "unmount", arg |-> Null]>>
    /\ UNCHANGED <<domainVars, readonly, diagramId, idCounter, nodes, edges,
                   saveTrigger, saveCleanup, inflight, store, lastIssued,
                   overlapGraph, overlapTimers, dragStart, parentTimers, view,
                   selectedTableIds, selectedRelationshipIds, signals,
                   tempFloatingEdge, rafId, cursorPosition, appVars>>

(* a parent-area check pending at unmount fires: its update reaches the
   provider, the unmounted component renders nothing *)
ParentTimerFiresUnmounted ==
    /\ ~mounted
    /\ parentTimers # <<>>
    /\ parentTimers' = Tail(parentTimers)
    /\ tables' = checkParentAreas(Head(parentTimers)).tables
    /\ calls' = checkParentAreas(Head(parentTimers)).calls
    /\ UNCHANGED <<areas, notes, relationships, dependencies, customTypes,
                   readonly, diagramId, idCounter, nodes, edges,
                   saveTrigger, saveTimer, saveCleanup, saveTimeouts, inflight,
                   store, lastIssued, overlapGraph, overlapTimers, dragStart, view,
                   selectedTableIds, selectedRelationshipIds, signals, mounted,
                   tempFloatingEdge, rafId, frames, cursorPosition, appVars>>

LifecycleBatches ==
    {<<PositionChange("t2", 1, 1, dragging)>> : dragging \in BOOLEAN}

LifecyclePositions == {Position(1, 1), Position(2, 2)}

InitLifecycle ==
    InitWith(ParentTables, ParentAreas, <<>>, <<>>, <<>>, FALSE, "d1")

NextLifecycle ==
    \/ \E changes \in LifecycleBatches : NodesChangeParent(changes)
    \/ mounted /\ ParentTimerFires
    \/ SaveTimeoutFires
    \/ StartFloatingEdge("t1")
    \/ \E position \in LifecyclePositions : handleMouseMove(position)
    \/ \E frame \in frames : FrameFires(frame)
    \/ onPaneClickHandler
    \/ handleEscape
    \/ Unmount
    \/ ParentTimerFiresUnmounted

SpecLifecycle == InitLifecycle /\ [][NextLifecycle]_vars

(* C32: after the canvas is unmounted no scheduled task of the component
   runs: nothing is called and the domain model, the node and edge lists and
   the overlap graph are neither read for an update nor written *)
C32_NoTaskAfterUnmount ==
    [][~mounted => UNCHANGED <<domainVars, nodes, edges, overlapGraph, calls>>]_vars

(* the tasks that the unmount cancels: no write is issued and no frame
   callback runs after it *)
C32_SaveAndFrameCancelled ==
    [][~mounted => ~Ran("saveTimeout") /\ ~Ran("frameCallback")]_vars

(* C33: during a connection gesture at most one frame callback is pending
   at any time, and a pointer move that arrives while one is pending
   schedules nothing and updates no cursor position *)
C33_OneFramePending ==
    [][/\ Cardinality(frames') <= 1
       /\ (Ran("handleMouseMove") /\ frames # {})
            => /\ frames' = frames
               /\ cursorPosition' = cursorPosition]_vars

(* a pointer move arrived while a frame callback was pending: the callback
   of the first move is still the only one *)
C33_Witness ==
    /\ calls # <<>> /\ calls[1].fn = "handleMouseMove"
    /\ calls[1].arg = Position(2, 2)
    /\ frames = {[id |-> 1, position |-> Position(1, 1)]}
    /\ tempFloatingEdge = "t1"

(* C34: after the connection gesture has ended no frame callback scheduled
   during it fires: the cursor position is null whenever no gesture is in
   progress *)
C34_CursorNullAfterGestureEnd ==
    tempFloatingEdge = Null => cursorPosition = NoPosition


-----------------------------------------------------------------------------
(* Events and changes that refer to a table that is gone *)

(* the consumer reads node.measured (update_table with a width) or
   node.data.table (add_field, remove_field) of what getNode returned:
   a TypeError when that is undefined *)
eventConsumerThrows(event, nds) ==
    /\ \/ event.action = "update_table" /\ event.width # 0
       \/ event.action \in {"add_field", "remove_field"}
    /\ getNodeIn(nds, event.id) = NoNode

(* an event about a table that is no longer in the diagram reaches the
   consumer: the provider has nothing to change *)
StaleEventPublished(event) ==
    /\ ~eventAllowed(event)
    /\ dragStart.id = Null
    /\ mounted
    /\ IF eventConsumerThrows(event, nodes)
       THEN /\ calls' = <<[fn |-> "eventConsumer", arg |-> event],
                          [fn |-> "TypeError", arg |-> event.id]>>
            /\ UNCHANGED overlapGraph
       ELSE /\ calls' = <<[fn |-> "eventConsumer", arg |-> event]>>
            /\ overlapGraph' = eventConsumer(event, nodes, tables, overlapGraph)
    /\ UNCHANGED <<domainVars, readonly, diagramId, idCounter, nodes, edges,
                   saveTrigger, saveTimer, saveCleanup, saveTimeouts, inflight,
                   store, lastIssued, overlapTimers, dragStart, parentTimers, view,
                   selectedTableIds, selectedRelationshipIds, signals, mounted,
                   tempFloatingEdge, rafId, frames, cursorPosition, appVars>>

StaleBatches ==
    {<<PositionChange("t2", 0, 0, d)>> : d \in BOOLEAN}
    \cup {<<PositionChange("tX", 0, 0, FALSE)>>,
          <<DimensionsChange("tX", 2, 1, TRUE)>>,
          <<RemoveChange("tX")>>}

StaleEvents ==
    {Event("update_table", <<>>, <<>>, "t2", w, <<>>) : w \in {0, 2}}
    \cup {Event(action, <<>>, <<>>, "t2", 0, <<Field("g1", "integer")>>) :
            action \in {"add_field", "remove_field"}}
    \cup {Event("remove_tables", <<>>, <<"t2">>, Null, 0, <<>>)}

InitStale ==
    InitWith(OverlapTables, <<Area("a1", 0, 0)>>, <<>>, <<>>, <<>>, FALSE, "d1")

NextStale ==
    \/ \E changes \in StaleBatches : NodesChangeOverlap(changes)
    \/ \E timer \in overlapTimers : OverlapTimerFires(timer)
    \/ \E timer \in overlapTimers : MeasuredTimeoutFires(timer)
    \/ \E event \in StaleEvents : EventPublished(event)
    \/ \E event \in StaleEvents : StaleEventPublished(event)

SpecStale == InitStale /\ [][NextStale]_vars

(* the consumer was handed an update_table, add_field or remove_field
   event about a table that is gone *)
StaleEvent ==
    /\ Ran("eventConsumer")
    /\ Input.action \in {"update_table", "add_field", "remove_field"}
    /\ ~eventAllowed(Input)

(* C35: an event that refers to a table that is no longer present is
   skipped: the consumer raises no error and the domain model and the
   overlap graph stay as they are *)
C35_StaleEventSkipped ==
    [][StaleEvent => /\ Len(calls') = 1
                     /\ UNCHANGED <<domainVars, overlapGraph>>]_vars

(* whatever the consumer does with such an event, the domain model and the
   overlap graph stay as they are *)
C35_StaleEventLeavesState ==
    [][StaleEvent => UNCHANGED <<domainVars, overlapGraph>>]_vars

(* a batch of node changes none of which names a node changes neither the
   domain model nor the overlap graph and schedules no overlap update *)
C35_StaleChangesSkipped ==
    [][(Ran("onNodesChangeHandler")
        /\ \A i \in DOMAIN Input : getNode(Input[i].id) = NoNode)
            => UNCHANGED <<domainVars, overlapGraph, overlapTimers, nodes>>]_vars


-----------------------------------------------------------------------------
(* The save timer, with and without a diagram id *)

InitTimer ==
    \E did \in {Null, "d1"} :
        InitWith(SaveTables, <<Area("a1", 0, 0)>>, <<Note("n1", 0, 1)>>,
                 <<>>, <<>>, FALSE, did)

SpecTimer == InitTimer /\ [][NextSave]_vars

(* C36: in every reachable state at most one timeout of the save effect is
   pending, the one the ref holds; and without a diagram id none is pending
   and no write has been issued *)
C36_SingleSaveTimer ==
    /\ saveTimeouts <= 1
    /\ saveTimer.pending <=> saveTimeouts = 1
    /\ diagramId = Null =>
        /\ saveTimeouts = 0
        /\ ~saveTimer.pending
        /\ lastIssued.seq = 0
        /\ inflight = {}

(* the effect ran again while its timeout was pending: the pending timeout
   stands for both runs and is the only one *)
C36_Witness ==
    /\ diagramId = "d1"
    /\ saveTimer.pending
    /\ saveTimer.absorbed = 2
    /\ saveTimeouts = 1
    /\ calls # <<>>

(* without a diagram id the effect ran and armed nothing *)
C36_SkippedWithoutDiagram ==
    /\ diagramId = Null
    /\ saveTrigger > 0
    /\ saveTimeouts = 0


-----------------------------------------------------------------------------
(* Overlap updates that interleave: two settles, and the rebuild after a   *)
(* change of the filter                                                    *)

MaxRebuildTimers == 2

(* the debounced rebuild of the filter effect: its callback closed over the
   tables and the filter of the render that created it, so the graph it
   will set is fixed when it is armed *)
RebuildTimer(tbls, v) ==
    [kind |-> "rebuild", ids |-> <<>>, nodes |-> <<>>,
     overlapGraph |->
        findOverlappingTables(
            SelectSeq(tbls, LAMBDA t : filterTable(t, v)
                                       /\ (v.showDBViews \/ ~t.isView))),
     width |-> 0]

(* the filter or showDBViews changes: the projection runs and the rebuild
   is armed *)
ViewChangesOverlap(v) ==
    /\ dragStart.id = Null
    /\ Render([Invoked("viewChanged", v) EXCEPT
                 !.view = v,
                 !.touched = {"view"} \cup (IF v.showDBViews # view.showDBViews
                                            THEN {"showDBViews"} ELSE {})])
    /\ overlapTimers' =
        IF v.filter # view.filter \/ v.showDBViews # view.showDBViews
        THEN overlapTimers \cup {RebuildTimer(tables, v)}
        ELSE overlapTimers
    /\ Cardinality(overlapTimers') <= MaxRebuildTimers
    /\ UNCHANGED <<overlapGraph, dragStart, parentTimers>>

(* the 500 ms of the rebuild have passed *)
RebuildTimerFires(timer) ==
    /\ timer \in overlapTimers
    /\ timer.kind = "rebuild"
    /\ overlapGraph' = timer.overlapGraph
    /\ overlapTimers' = overlapTimers \ {timer}
    /\ nodes' = projectNodes(tables, areas, notes, view, nodes)
    /\ calls' = <<[fn |-> "findOverlappingTables", arg |-> timer.overlapGraph]>>
    /\ UNCHANGED <<domainVars, readonly, diagramId, idCounter, edges,
                   saveTrigger, saveTimer, saveCleanup, saveTimeouts, inflight,
                   store, lastIssued, dragStart, view, selectedTableIds,
                   selectedRelationshipIds, signals, parentTimers,
                   mounted, tempFloatingEdge, rafId, frames, cursorPosition, appVars>>

(* a batch of node changes; every render has a debounced update of its own,
   so a second settle arms a second timeout *)
NodesChangeSettle(changes) ==
    /\ gestureAllows(changes)
    /\ Render(onNodesChangeHandler(changes))
    /\ dragStart' = trackDrag(changes)
    /\ overlapTimers' =
        IF scheduledIds(onNodesChangeHandler(changes)) # <<>>
        THEN overlapTimers \cup
                {OverlapTimer(scheduledIds(onNodesChangeHandler(changes)),
                              nodes, overlapGraph)}
        ELSE overlapTimers
    /\ Cardinality(overlapTimers') <= MaxRebuildTimers
    /\ UNCHANGED <<overlapGraph, parentTimers>>

RebuildTables ==
    <<Table("t1", 0, 0, Null, <<Field("f1", "integer")>>),
      Table("t2", 2, 0, Null, <<Field("g1", "integer")>>),
      Table("t3", 4, 0, Null, <<Field("h1", "integer")>>)>>

(* t1 is dropped on t3; t2 is moved away *)
RebuildBatches ==
    {<<PositionChange("t1", 4, 0, d)>> : d \in BOOLEAN}
    \cup {<<PositionChange("t2", 2, 2, d)>> : d \in BOOLEAN}

RebuildViews == {View(filter, FALSE, TRUE, {}) : filter \in {{}, {"t2"}}}

InitRebuild ==
    InitWith(RebuildTables, <<>>, <<>>, <<>>, <<>>, FALSE, "d1")

NextRebuild ==
    \/ \E changes \in RebuildBatches : NodesChangeSettle(changes)
    \/ \E v \in RebuildViews : ViewChangesOverlap(v)
    \/ \E timer \in overlapTimers : OverlapTimerFires(timer)
    \/ \E timer \in overlapTimers : RebuildTimerFires(timer)

SpecRebuild == InitRebuild /\ [][NextRebuild]_vars

(* C37: once every pending overlap update and rebuild has run, the overlap
   graph reflects the final positions of all visible tables: two of them are
   in each other's adjacency set iff their boxes intersect *)
C37_NoLostOverlapUpdate ==
    (dragStart.id = Null /\ overlapTimers = {}) =>
        \A a, b \in Range(visibleTableNodes(nodes)) :
            a.id # b.id =>
                (b.id \in overlapsOf(overlapGraph, a.id)
                    <=> intersects(nodeBox(a), nodeBox(b)))


(* a rebuild armed by a filter change ran last, after a table had settled,
   and set a graph in which t1, lying on t3, has no overlap *)
C37_StaleRebuildRanLast ==
    /\ dragStart.id = Null /\ overlapTimers = {}
    /\ calls # <<>> /\ calls[1].fn = "findOverlappingTables"
    /\ view.filter = {"t2"}
    /\ getNode("t1").x = 4 /\ tables[1].x = 4
    /\ overlapsOf(overlapGraph, "t1") = {}


-----------------------------------------------------------------------------
(* The storage provider: read-modify-write of the whole diagram            *)

canvasVars ==
    <<tables, areas, notes, relationships, dependencies, customTypes,
      readonly, diagramId, idCounter, nodes, edges, saveTrigger, saveTimer,
      saveCleanup, inflight, store, lastIssued, overlapGraph, overlapTimers,
      dragStart, parentTimers, view, selectedTableIds, selectedRelationshipIds,
      signals, saveTimeouts, mounted, tempFloatingEdge, rafId, frames,
      cursorPosition>>

migrationVars == <<migrated, indexedDB, migration, wrapper>>

(* a table or relationship as the storage operations see it *)
Stored(id, x) == [id |-> id, x |-> x]

(* a call of a storage operation *)
StorageOp(fn, arg) == [fn |-> fn, arg |-> arg]

(* where a called operation is: awaiting getDiagram, awaiting saveDiagram
   with the diagram it posted, resolved, or rejected *)
OpState(pc, diagram) == [pc |-> pc, diagram |-> diagram]

(* addTable: diagram.content.tables.push(params.table) *)
addTable(diagram, table) ==
    [diagram EXCEPT !.tables = Append(@, table)]

(* putTable: the table with the id is replaced, or the table is pushed *)
putTable(diagram, table) ==
    IF \E i \in DOMAIN diagram.tables : diagram.tables[i].id = table.id
    THEN [diagram EXCEPT !.tables =
            [i \in DOMAIN @ |-> IF @[i].id = table.id THEN table ELSE @[i]]]
    ELSE [diagram EXCEPT !.tables = Append(@, table)]

(* addRelationship: diagram.content.relationships.push(params.relationship) *)
addRelationship(diagram, relationship) ==
    [diagram EXCEPT !.relationships = Append(@, relationship)]

(* what the operation does to the diagram it fetched *)
modified(op, diagram) ==
    IF op.fn = "addTable" THEN addTable(diagram, op.arg)
    ELSE IF op.fn = "putTable" THEN putTable(diagram, op.arg)
    ELSE addRelationship(diagram, op.arg)

(* the operation is called: the GET of the diagram is sent *)
StorageCalled(op) ==
    /\ op \notin DOMAIN storageOps
    /\ storageOps' = [o \in DOMAIN storageOps \cup {op} |->
                        IF o = op THEN OpState("getDiagram", StoredDiagram(<<>>, <<>>))
                        ELSE storageOps[o]]
    /\ calls' = <<[fn |-> op.fn, arg |-> op.arg],
                  [fn |-> "vertexApi.getDiagram", arg |-> "d1"]>>
    /\ UNCHANGED <<serverDiagram, canvasVars, migrationVars>>

(* the GET resolves with the diagram as it is stored: the operation
   modifies its copy and posts it *)
getDiagramResolves(op) ==
    /\ op \in DOMAIN storageOps
    /\ storageOps[op].pc = "getDiagram"
    /\ storageOps' = [storageOps EXCEPT
                        ![op] = OpState("saveDiagram", modified(op, serverDiagram))]
    /\ calls' = <<[fn |-> "getDiagram.resolved", arg |-> op],
                  [fn |-> "vertexApi.saveDiagram", arg |-> storageOps'[op].diagram]>>
    /\ UNCHANGED <<serverDiagram, canvasVars, migrationVars>>

(* the POST replaces the stored diagram and resolves: the operation has
   completed *)
saveDiagramStored(op) ==
    /\ op \in DOMAIN storageOps
    /\ storageOps[op].pc = "saveDiagram"
    /\ serverDiagram' = storageOps[op].diagram
    /\ storageOps' = [storageOps EXCEPT ![op].pc = "resolved"]
    /\ calls' = <<[fn |-> "saveDiagram.resolved", arg |-> op]>>
    /\ UNCHANGED <<canvasVars, migrationVars>>

(* a request of the operation fails: the operation logs and rethrows *)
StorageRejects(op) ==
    /\ op \in DOMAIN storageOps
    /\ storageOps[op].pc \in {"getDiagram", "saveDiagram"}
    /\ storageOps' = [storageOps EXCEPT ![op].pc = "rejected"]
    /\ calls' = <<[fn |-> "console.error", arg |-> op]>>
    /\ UNCHANGED <<serverDiagram, canvasVars, migrationVars>>

StorageOps ==
    {StorageOp("addTable", Stored("t2", 0)),
     StorageOp("addTable", Stored("t3", 0)),
     StorageOp("putTable", Stored("t1", 5)),
     StorageOp("addRelationship", Stored("r1", 0))}

InitStorage ==
    /\ InitCanvas(<<>>, <<>>, <<>>, <<>>, <<>>, FALSE, "d1", DefaultView)
    /\ serverDiagram = StoredDiagram(<<Stored("t1", 0)>>, <<>>)
    /\ storageOps = <<>>
    /\ migrated = TRUE
    /\ indexedDB = [diagrams |-> 0, config |-> FALSE]
    /\ migration = NoMigration
    /\ wrapper = [pc |-> "done", migrationComplete |-> TRUE,
                  migrationError |-> FALSE, timeout |-> FALSE]

NextStorage ==
    \/ \E op \in StorageOps : StorageCalled(op)
    \/ \E op \in StorageOps : getDiagramResolves(op)
    \/ \E op \in StorageOps : saveDiagramStored(op)
    \/ \E op \in StorageOps : StorageRejects(op)

SpecStorage == InitStorage /\ [][NextStorage]_vars

(* the stored diagram holds what the operation wrote *)
Reflected(op) ==
    IF op.fn = "addRelationship"
    THEN \E i \in DOMAIN serverDiagram.relationships :
            serverDiagram.relationships[i] = op.arg
    ELSE \E i \in DOMAIN serverDiagram.tables : serverDiagram.tables[i] = op.arg

(* C38: the stored diagram contains the effect of every storage operation
   that has completed successfully, whatever the order of the get and save
   steps of the operations was *)
C38_CompletedOperationsReflected ==
    \A op \in DOMAIN storageOps :
        storageOps[op].pc = "resolved" => Reflected(op)


-----------------------------------------------------------------------------
(* The legacy migration and the wrapper that runs it at startup            *)

MaxLegacyDiagrams == 2

storageVars == <<serverDiagram, storageOps>>

alreadyMigrated_Never(flag) == FALSE

(* localStorage.getItem(MIGRATION_FLAG) === 'true' *)
alreadyMigrated(flag) == flag

timeoutPromise_Never == FALSE

(* the wrapper races the migration against a timeout of 15 s *)
timeoutPromise == TRUE

(* a run of the migration has got past the flag and awaits the diagrams of
   the legacy database *)
Started == [pc |-> "toArray", next |-> 0, errors |-> 0, result |-> NoResult]

Returned(m, result) == [m EXCEPT !.pc = "returned", !.result = result]

AlreadyMigrated == MigrationResult(TRUE, "Already migrated", 0, 0)

(* the wrapper's steps after the race: migrationComplete in every branch,
   migrationError when the result carries errors *)
settled(w, result) ==
    [w EXCEPT !.pc = "done", !.migrationComplete = TRUE, !.timeout = FALSE,
              !.migrationError = IF ~result.success /\ result.errors > 0
                                 THEN TRUE ELSE @]

(* the run returns to whoever awaits it: the wrapper, while the race is
   open *)
deliver(w, m) ==
    IF w.pc = "race" /\ m.pc = "returned" THEN settled(w, m.result) ELSE w

(* the effect of MigrationWrapper: runMigration up to its await, or to its
   end when the flag is set or reading it throws *)
runMigration(throws) ==
    /\ wrapper.pc = "start"
    /\ IF throws
       THEN /\ wrapper' = [wrapper EXCEPT !.pc = "done", !.migrationComplete = TRUE,
                                          !.migrationError = TRUE]
            /\ calls' = <<[fn |-> "runMigration", arg |-> "throws"]>>
            /\ UNCHANGED migration
       ELSE IF migrated
       THEN /\ wrapper' = [wrapper EXCEPT !.pc = "done", !.migrationComplete = TRUE]
            /\ calls' = <<[fn |-> "runMigration", arg |-> "complete"]>>
            /\ UNCHANGED migration
       ELSE /\ wrapper' = [wrapper EXCEPT !.pc = "race", !.timeout = timeoutPromise]
            /\ migration' = Started
            /\ calls' = <<[fn |-> "runMigration", arg |-> "race"],
                          [fn |-> "migrateIndexedDBToAPI", arg |-> migrated]>>
    /\ UNCHANGED <<migrated, indexedDB, canvasVars, storageVars>>

(* migrateIndexedDBToAPI is called once the application has loaded *)
migrateIndexedDBToAPI ==
    /\ wrapper.pc = "done"
    /\ IF alreadyMigrated(migrated)
       THEN /\ calls' = <<[fn |-> "migrateIndexedDBToAPI", arg |-> migrated],
                          [fn |-> "return", arg |-> AlreadyMigrated]>>
            /\ UNCHANGED migration
       ELSE /\ migration.pc \in {"idle", "returned"}
            /\ migration' = Started
            /\ calls' = <<[fn |-> "migrateIndexedDBToAPI", arg |-> migrated]>>
    /\ UNCHANGED <<migrated, indexedDB, wrapper, canvasVars, storageVars>>

(* diagrams.toArray() resolves: with no diagram the flag is set and the run
   returns, otherwise the loop begins *)
ToArrayResolves ==
    /\ migration.pc = "toArray"
    /\ IF indexedDB.diagrams = 0
       THEN /\ migrated' = TRUE
            /\ migration' = Returned(migration,
                    MigrationResult(TRUE, "No diagrams to migrate", 0, 0))
            /\ calls' = <<[fn |-> "toArray.resolved", arg |-> 0],
                          [fn |-> "localStorage.setItem", arg |-> TRUE],
                          [fn |-> "return", arg |-> migration'.result]>>
       ELSE /\ migration' = [migration EXCEPT !.pc = "diagram", !.next = 1]
            /\ calls' = <<[fn |-> "toArray.resolved", arg |-> indexedDB.diagrams]>>
            /\ UNCHANGED migrated
    /\ wrapper' = deliver(wrapper, migration')
    /\ UNCHANGED <<indexedDB, canvasVars, storageVars>>

(* opening the legacy database or reading its diagrams fails: the outer
   catch returns the failure *)
ToArrayRejects ==
    /\ migration.pc = "toArray"
    /\ migration' = Returned(migration,
            MigrationResult(FALSE, "Migration failed", 0, 1))
    /\ calls' = <<[fn |-> "toArray.rejected", arg |-> 0],
                  [fn |-> "return", arg |-> migration'.result]>>
    /\ wrapper' = deliver(wrapper, migration')
    /\ UNCHANGED <<migrated, indexedDB, canvasVars, storageVars>>

(* one pass of the loop: the entities of the diagram are read and the
   diagram is posted; a failure of either is recorded and the loop goes on *)
DiagramMigrated(outcome) ==
    /\ migration.pc = "diagram"
    /\ migration' = [migration EXCEPT
            !.pc = IF migration.next = indexedDB.diagrams THEN "config" ELSE @,
            !.next = @ + 1,
            !.errors = IF outcome = "saved" THEN @ ELSE @ + 1]
    /\ calls' = <<[fn |-> "diagram", arg |-> migration.next]>>
                \o (IF outcome = "readFailed" THEN <<>>
                    ELSE <<[fn |-> "vertexApi.saveDiagram", arg |-> migration.next]>>)
    /\ UNCHANGED <<migrated, indexedDB, wrapper, canvasVars, storageVars>>

(* the config is migrated, the flag is set and the run returns *)
ConfigMigrated(outcome) ==
    /\ migration.pc = "config"
    /\ outcome = "none" <=> ~indexedDB.config
    /\ migrated' = TRUE
    /\ LET errors == IF outcome \in {"none", "saved"} THEN migration.errors
                     ELSE migration.errors + 1
       IN  /\ migration' = Returned([migration EXCEPT !.errors = errors],
                    MigrationResult(errors = 0, "Migrated", indexedDB.diagrams, errors))
           /\ calls' = <<[fn |-> "config", arg |-> outcome]>>
                       \o (IF outcome \in {"saved", "saveFailed"}
                           THEN <<[fn |-> "vertexApi.updateConfig", arg |-> outcome]>>
                           ELSE <<>>)
                       \o <<[fn |-> "localStorage.setItem", arg |-> TRUE],
                            [fn |-> "return", arg |-> migration'.result]>>
    /\ wrapper' = deliver(wrapper, migration')
    /\ UNCHANGED <<indexedDB, canvasVars, storageVars>>

(* the 15 s pass before the run returns: the wrapper sets the flag and
   shows its children; the run goes on *)
TimeoutFires ==
    /\ wrapper.pc = "race"
    /\ wrapper.timeout
    /\ migrated' = TRUE
    /\ wrapper' = [wrapper EXCEPT !.pc = "done", !.migrationComplete = TRUE,
                                  !.migrationError = TRUE, !.timeout = FALSE]
    /\ calls' = <<[fn |-> "timeout", arg |-> 15000],
                  [fn |-> "localStorage.setItem", arg |-> TRUE]>>
    /\ UNCHANGED <<indexedDB, migration, canvasVars, storageVars>>

(* the page is loaded again: the run in progress is gone, the wrapper
   starts anew, localStorage and the legacy database stay *)
Reload ==
    /\ wrapper.pc # "start"
    /\ wrapper' = [pc |-> "start", migrationComplete |-> FALSE,
                   migrationError |-> FALSE, timeout |-> FALSE]
    /\ migration' = NoMigration
    /\ calls' = <<[fn |-> "reload", arg |-> Null]>>
    /\ UNCHANGED <<migrated, indexedDB, canvasVars, storageVars>>

MigrationOutcomes == {"saved", "saveFailed", "readFailed"}

InitMigration ==
    /\ InitCanvas(<<>>, <<>>, <<>>, <<>>, <<>>, FALSE, Null, DefaultView)
    /\ serverDiagram = StoredDiagram(<<>>, <<>>)
    /\ storageOps = <<>>
    /\ migrated \in BOOLEAN
    /\ indexedDB \in [diagrams : 0..MaxLegacyDiagrams, config : BOOLEAN]
    /\ migration = NoMigration
    /\ wrapper = [pc |-> "start", migrationComplete |-> FALSE,
                  migrationError |-> FALSE, timeout |-> FALSE]

NextWrapper ==
    \/ \E throws \in BOOLEAN : runMigration(throws)
    \/ migrateIndexedDBToAPI
    \/ ToArrayResolves
    \/ ToArrayRejects
    \/ \E outcome \in MigrationOutcomes : DiagramMigrated(outcome)
    \/ \E outcome \in MigrationOutcomes \cup {"none"} : ConfigMigrated(outcome)
    \/ TimeoutFires

NextMigration == NextWrapper \/ Reload

SpecMigration == InitMigration /\ [][NextMigration]_vars

(* one wrapper from mount on; the effect runs and the timeout fires when
   due, while the requests of the migration may never be answered *)
SpecWrapper ==
    /\ InitMigration
    /\ [][NextWrapper]_vars
    /\ WF_vars(\E throws \in BOOLEAN : runMigration(throws))
    /\ WF_vars(TimeoutFires)

(* C39: a call of migrateIndexedDBToAPI made while the flag is set returns
   success and issues neither saveDiagram nor updateConfig; the flag is set
   by a run that finds no diagram, by a run that went through all diagrams,
   and by the timeout of the wrapper, is left as it is by a run that fails
   fatally, and is never cleared *)
C39_MigrationOnce ==
    [][/\ (CountCalls(calls', "migrateIndexedDBToAPI") = 1 /\ migrated)
            => /\ CallArgs("return") = {AlreadyMigrated}
               /\ CountCalls(calls', "vertexApi.saveDiagram") = 0
               /\ CountCalls(calls', "vertexApi.updateConfig") = 0
               /\ migration' = migration
       /\ (Ran("toArray.resolved") /\ indexedDB.diagrams = 0) => migrated'
       /\ Ran("config") => migrated'
       /\ Ran("timeout") => migrated'
       /\ Ran("toArray.rejected") => migrated' = migrated
       /\ migrated => migrated']_vars

(* a run went through the diagrams with an error and set the flag; the
   next call returned at once *)
C39_Witness ==
    /\ migrated
    /\ migration.pc = "returned" /\ migration.result.errors > 0
    /\ migration.result.diagramsCount > 0
    /\ Len(calls) = 2
    /\ calls[1].fn = "migrateIndexedDBToAPI"
    /\ calls[2] = [fn |-> "return", arg |-> AlreadyMigrated]

(* C40: whatever the outcome of the startup migration, migrationComplete
   becomes true, and once true it stays true *)
C40_WrapperNeverBlocks ==
    /\ <>wrapper.migrationComplete
    /\ [][wrapper.migrationComplete => wrapper'.migrationComplete]_vars

(* the timeout ended the race while the run was still awaiting a request:
   the children are shown *)
C40_Witness ==
    /\ wrapper.migrationComplete
    /\ wrapper.migrationError
    /\ migration.pc = "diagram"
    /\ calls # <<>> /\ calls[1].fn = "timeout"

====
